---- MODULE Spec2Model ----
(***************************************************************************)
(* Input synthesis and session liveness of mcp-x11-controller.             *)
(*                                                                         *)
(* Two programs of the repository are modelled:                            *)
(*   - package x11 (src/x11): Client.Type / typeChar / KeyPress /          *)
(*     KeyCombo with keyNameToKeysym and keysymToKeycode; both versions    *)
(*     of ConnectWithOptions, Client.Close and the Client operations;      *)
(*   - package main (src/main.go): X11Controller with its liveness flag,   *)
(*     connection monitor, pointer and keyboard operations; func main      *)
(*     with the children it starts and cleanup.                            *)
(*                                                                         *)
(* Strings are sequences of byte values (Go strings); the texts used are   *)
(* ASCII, so a rune of `range text` equals the byte at that position.      *)
(* Keysyms and keycodes are the integers of the X11 protocol.              *)
(***************************************************************************)
EXTENDS Integers, Sequences, FiniteSets, TLC

VARIABLES
    kbd,        \* keyboard of the display server: keycode range and mapping
    cPc,        \* x11.Client caller: "idle" | "returned" | "blocked"
    cCall,      \* the Client call being reported: [op, arg]
    cRet,       \* its outcome: "none" | "ok" | "err" | "hang"
    cEvents,    \* the XTEST events that call emitted, in order
    cPrev       \* [op, ret] of the call completed before cCall

cvars == <<cPc, cCall, cRet, cEvents, cPrev>>

VARIABLES
    connAlive,  \* xc.connAlive
    connOpen,   \* xc.conn has not been closed
    monPc,      \* monitorConnection goroutine: "check" | "sleep" | "done"
    pointer,    \* pointer position on the server, <<x, y>>
    spawned,    \* number of processes started by StartProgram
    xPc,        \* the tool-call dispatcher: "idle" | "returned" | "blocked"
    xCall,      \* the X11Controller call being reported
    xRet,       \* its outcome: "none" | "ok" | "err" | "hang"
    xReqs,      \* the requests that call issued on the connection, in order
    xErr        \* the message of the error it returned: "none" | "connectionLost" | ...

xvars == <<connAlive, connOpen, monPc, pointer, spawned, xPc, xCall, xRet, xReqs, xErr>>

VARIABLES
    mainPc,     \* main goroutine of the server program: the step it is about to take
    sigPc,      \* the signal goroutine of main: "wait" or its place in cleanup
    config,     \* the command line and what the machine has installed
    proc,       \* xvfbProcess, wmProcess, appProcess: the state of each child
    mlog,       \* starts and kill signals of children, in order
    xsetup,     \* what the X server answered to NewX11Controller
    served,     \* number of tool calls that server.Run has dispatched
    closes      \* number of times main has executed xc.Close()

mvars == <<mainPc, sigPc, config, proc, mlog, xsetup, served, closes>>

VARIABLES
    build,      \* which version of ConnectWithOptions the process was built with
    envDisplay, \* DISPLAY of the process using package x11 (0: unset, else n of ":n")
    lockFiles,  \* the n for which /tmp/.Xn-lock exists
    sockets,    \* the n for which /tmp/.X11-unix/Xn exists
    server,     \* for each display n, who serves it (NoServer, External, or a client)
    clients,    \* the Clients returned by ConnectWithOptions, in order
    sPc,        \* the user of package x11: "idle" | "returned"
    sCall,      \* the call being reported
    sRet,       \* its outcome: "none" | "ok" | "err"
    sTrace      \* what that call did to processes and the display, in order

svars == <<build, envDisplay, lockFiles, sockets, server, clients, sPc, sCall, sRet, sTrace>>

VARIABLES
    apps,       \* the processes started by Client.StartApp, by PID: "running" | "exited" | "reaped"
    sPid,       \* the PID that StartApp returned to the caller (0: none)
    sErr,       \* which error the reported call returned: "none" | "notFound" | ...
    sEnv        \* cmd.Env of the child that the reported call started

avars == <<apps, sPid, sErr, sEnv>>

VARIABLES
    i3Connected,    \* c.i3Connected of the Client whose relay operations are called
    sText           \* the text the reported relay operation returned

rvars == <<i3Connected, sText>>

VARIABLES
    screen,     \* what the root window shows: the data a GetImage reply carries
    shotData,   \* the image bytes the reported take_screenshot call returned (<<>>: none)
    shotFile    \* the bytes that call wrote to its file (<<>>: no file written)

hvars == <<screen, shotData, shotFile>>

----------------------------------------------------------------------------
(* Bounds of the model *)

MaxTextLen == 2     \* longest free text over TypeAlphabet
MaxMods == 2        \* most modifier tokens in a generated combo

----------------------------------------------------------------------------
(* Keysym values (go-x11-client util/keysyms, X11 keysymdef.h) *)

XK_Return == 65293
XK_Tab == 65289
XK_Escape == 65307
XK_BackSpace == 65288
XK_Delete == 65535
XK_Home == 65360
XK_End == 65367
XK_Page_Up == 65365
XK_Page_Down == 65366
XK_Left == 65361
XK_Right == 65363
XK_Up == 65362
XK_Down == 65364
XK_Shift_L == 65505
XK_Control_L == 65507
XK_Alt_L == 65513
XK_Super_L == 65515

\* x.Keycode is an 8-bit unsigned integer
KeycodeModulus == 256

----------------------------------------------------------------------------
(* Strings *)

S_Return == <<82, 101, 116, 117, 114, 110>>
S_Enter == <<69, 110, 116, 101, 114>>
S_Tab == <<84, 97, 98>>
S_Escape == <<69, 115, 99, 97, 112, 101>>
S_Esc == <<69, 115, 99>>
S_BackSpace == <<66, 97, 99, 107, 83, 112, 97, 99, 101>>
S_Backspace == <<66, 97, 99, 107, 115, 112, 97, 99, 101>>
S_Delete == <<68, 101, 108, 101, 116, 101>>
S_Del == <<68, 101, 108>>
S_Home == <<72, 111, 109, 101>>
S_End == <<69, 110, 100>>
S_Page_Up == <<80, 97, 103, 101, 95, 85, 112>>
S_PageUp == <<80, 97, 103, 101, 85, 112>>
S_PgUp == <<80, 103, 85, 112>>
S_Page_Down == <<80, 97, 103, 101, 95, 68, 111, 119, 110>>
S_PageDown == <<80, 97, 103, 101, 68, 111, 119, 110>>
S_PgDn == <<80, 103, 68, 110>>
S_Left == <<76, 101, 102, 116>>
S_Right == <<82, 105, 103, 104, 116>>
S_Up == <<85, 112>>
S_Down == <<68, 111, 119, 110>>
S_tab == <<116, 97, 98>>
S_delete == <<100, 101, 108, 101, 116, 101>>
S_ctrl == <<99, 116, 114, 108>>
S_shift == <<115, 104, 105, 102, 116>>
S_alt == <<97, 108, 116>>
S_super == <<115, 117, 112, 101, 114>>
S_win == <<119, 105, 110>>
S_cmd == <<99, 109, 100>>
S_Ctrl == <<67, 116, 114, 108>>
S_Alt == <<65, 108, 116>>
S_Super == <<83, 117, 112, 101, 114>>
S_plus == <<112, 108, 117, 115>>
S_foo == <<102, 111, 111>>
S_return == <<114, 101, 116, 117, 114, 110>>

\* '+' , '\n'
PlusByte == 43
NewlineByte == 10

\* strings.ToLower on ASCII text
LowerByte(b) == IF b >= 65 /\ b <= 90 THEN b + 32 ELSE b
ToLower(s) == [i \in 1..Len(s) |-> LowerByte(s[i])]

\* strings.Split(s, "+"): the fields between separators, one field for ""
RECURSIVE SplitFrom(_, _, _, _)
SplitFrom(s, i, cur, acc) ==
    IF i > Len(s) THEN Append(acc, cur)
    ELSE IF s[i] = PlusByte THEN SplitFrom(s, i + 1, <<>>, Append(acc, cur))
    ELSE SplitFrom(s, i + 1, Append(cur, s[i]), acc)
Split(s) == SplitFrom(s, 1, <<>>, <<>>)

----------------------------------------------------------------------------
(* The keyboard mapping the server reports *)

\* rows of a US keyboard: keycode :> <<column 0, column 1>>
USRows ==
    (9 :> <<65307, 0>>) @@ (10 :> <<49, 33>>) @@ (11 :> <<50, 64>>) @@ (12 :> <<51, 35>>) @@
    (13 :> <<52, 36>>) @@ (14 :> <<53, 37>>) @@ (15 :> <<54, 94>>) @@ (16 :> <<55, 38>>) @@
    (17 :> <<56, 42>>) @@ (18 :> <<57, 40>>) @@ (19 :> <<48, 41>>) @@ (20 :> <<45, 95>>) @@
    (21 :> <<61, 43>>) @@ (22 :> <<65288, 0>>) @@ (23 :> <<65289, 65056>>) @@ (24 :> <<113, 81>>) @@
    (25 :> <<119, 87>>) @@ (26 :> <<101, 69>>) @@ (27 :> <<114, 82>>) @@ (28 :> <<116, 84>>) @@
    (29 :> <<121, 89>>) @@ (30 :> <<117, 85>>) @@ (31 :> <<105, 73>>) @@ (32 :> <<111, 79>>) @@
    (33 :> <<112, 80>>) @@ (34 :> <<91, 123>>) @@ (35 :> <<93, 125>>) @@ (36 :> <<65293, 0>>) @@
    (37 :> <<65507, 0>>) @@ (38 :> <<97, 65>>) @@ (39 :> <<115, 83>>) @@ (40 :> <<100, 68>>) @@
    (41 :> <<102, 70>>) @@ (42 :> <<103, 71>>) @@ (43 :> <<104, 72>>) @@ (44 :> <<106, 74>>) @@
    (45 :> <<107, 75>>) @@ (46 :> <<108, 76>>) @@ (47 :> <<59, 58>>) @@ (48 :> <<39, 34>>) @@
    (49 :> <<96, 126>>) @@ (50 :> <<65505, 0>>) @@ (51 :> <<92, 124>>) @@ (52 :> <<122, 90>>) @@
    (53 :> <<120, 88>>) @@ (54 :> <<99, 67>>) @@ (55 :> <<118, 86>>) @@ (56 :> <<98, 66>>) @@
    (57 :> <<110, 78>>) @@ (58 :> <<109, 77>>) @@ (59 :> <<44, 60>>) @@ (60 :> <<46, 62>>) @@
    (61 :> <<47, 63>>) @@ (62 :> <<65506, 0>>) @@ (64 :> <<65513, 65511>>) @@ (65 :> <<32, 0>>) @@
    (94 :> <<60, 62>>) @@ (110 :> <<65360, 0>>) @@ (111 :> <<65362, 0>>) @@ (112 :> <<65365, 0>>) @@
    (113 :> <<65361, 0>>) @@ (114 :> <<65363, 0>>) @@ (115 :> <<65367, 0>>) @@ (116 :> <<65364, 0>>) @@
    (117 :> <<65366, 0>>) @@ (119 :> <<65535, 0>>) @@ (133 :> <<65515, 0>>)

\* The keyboards considered: the full US keyboard (top = 133) and one without
\* the navigation block and Super (top = 65), each on a server whose setup
\* reports MaxKeycode 255 (X.Org, Xvfb) or a shorter range.
Keyboards ==
    { [minKeycode |-> 8, maxKeycode |-> mx, keysymsPerKeycode |-> 2, top |-> tp] :
        mx \in {140, 255}, tp \in {65, 133} }

\* symbol of a key position (NoSymbol = 0 where the keyboard has no key)
RowSym(keycode, col) ==
    IF keycode \in DOMAIN USRows /\ keycode <= kbd.top
    THEN USRows[keycode][col + 1] ELSE 0

\* GetKeyboardMapping reply: count = byte(max-min+1) rows of keysymsPerKeycode
ReplyLen == ((kbd.maxKeycode - kbd.minKeycode + 1) % KeycodeModulus) * kbd.keysymsPerKeycode
ReplyKeysym(idx) ==
    RowSym(kbd.minKeycode + (idx \div kbd.keysymsPerKeycode), idx % kbd.keysymsPerKeycode)

----------------------------------------------------------------------------
(* package x11: key resolution *)

\* inner loop of keysymToKeycode: some column of this keycode holds keysym
RowHasKeysym(keycode, keysym) ==
    \E col \in 0..(kbd.keysymsPerKeycode - 1) :
        LET idx == ((keycode - kbd.minKeycode) % KeycodeModulus) * kbd.keysymsPerKeycode + col
        IN  idx < ReplyLen /\ ReplyKeysym(idx) = keysym

\* the first value of the loop counter in lo..hi whose row holds keysym, or -1
FirstHit(lo, hi, keysym) ==
    LET hits == {keycode \in lo..hi : RowHasKeysym(keycode, keysym)}
    IN  IF hits = {} THEN -1
        ELSE CHOOSE keycode \in hits : \A other \in hits : keycode <= other

\* keysymToKeycode: `for keycode := minKeycode; keycode <= maxKeycode; keycode++`
\* on the 8-bit counter x.Keycode.  The counter first runs minKeycode..maxKeycode.
\* With maxKeycode below 255 it then reaches maxKeycode+1 and the loop ends in
\* the not-found error.  With maxKeycode = 255 the increment wraps to 0, the
\* condition stays true, the counter runs 0..minKeycode-1 and is back at
\* minKeycode with nothing changed: the loop never ends.
keysymToKeycode(keysym) ==
    LET first == FirstHit(kbd.minKeycode, kbd.maxKeycode, keysym)
        wrapped == FirstHit(0, kbd.minKeycode - 1, keysym)
    IN  IF first # -1 THEN [st |-> "ok", kc |-> first]
        ELSE IF kbd.maxKeycode + 1 < KeycodeModulus THEN [st |-> "err", kc |-> 0]
        ELSE IF wrapped # -1 THEN [st |-> "ok", kc |-> wrapped]
        ELSE [st |-> "hang", kc |-> 0]

NoKeysym == [ok |-> FALSE, keysym |-> 0]
Sym(k) == [ok |-> TRUE, keysym |-> k]

keyNameToKeysym(name) ==
    IF name \in {S_Return, S_Enter} THEN Sym(XK_Return)
    ELSE IF name = S_Tab THEN Sym(XK_Tab)
    ELSE IF name \in {S_Escape, S_Esc} THEN Sym(XK_Escape)
    ELSE IF name \in {S_BackSpace, S_Backspace} THEN Sym(XK_BackSpace)
    ELSE IF name \in {S_Delete, S_Del} THEN Sym(XK_Delete)
    ELSE IF name = S_Home THEN Sym(XK_Home)
    ELSE IF name = S_End THEN Sym(XK_End)
    ELSE IF name \in {S_Page_Up, S_PageUp, S_PgUp} THEN Sym(XK_Page_Up)
    ELSE IF name \in {S_Page_Down, S_PageDown, S_PgDn} THEN Sym(XK_Page_Down)
    ELSE IF name = S_Left THEN Sym(XK_Left)
    ELSE IF name = S_Right THEN Sym(XK_Right)
    ELSE IF name = S_Up THEN Sym(XK_Up)
    ELSE IF name = S_Down THEN Sym(XK_Down)
    ELSE IF name = S_tab THEN Sym(XK_Tab)
    ELSE IF name = S_delete THEN Sym(XK_Delete)
    ELSE NoKeysym

----------------------------------------------------------------------------
(* package x11: event emission *)

\* test.FakeInput(c.conn, KeyPress|KeyRelease, keycode, 0, c.root, 0, 0, 0)
Press(kc) == [type |-> "KeyPress", detail |-> kc]
Release(kc) == [type |-> "KeyRelease", detail |-> kc]

Out(ret, ev) == [ret |-> ret, ev |-> ev]

\* Client.KeyPress
ClientKeyPress(key) ==
    LET n == keyNameToKeysym(key)
        k == keysymToKeycode(n.keysym)
    IN  IF ~n.ok THEN Out("err", <<>>)
        ELSE IF k.st # "ok" THEN Out(k.st, <<>>)
        ELSE Out("ok", <<Press(k.kc), Release(k.kc)>>)

\* unicode.IsUpper / unicode.ToLower on the ASCII range
IsUpper(ch) == ch >= 65 /\ ch <= 90

\* the switch of Client.typeChar: which keysym to look up, and whether Shift
ClientCharKeysym(ch) ==
    IF ch = 33 THEN [keysym |-> 49, needShift |-> TRUE]         \* '!' XK_1
    ELSE IF ch = 64 THEN [keysym |-> 50, needShift |-> TRUE]    \* '@' XK_2
    ELSE IF ch = 35 THEN [keysym |-> 51, needShift |-> TRUE]    \* '#' XK_3
    ELSE IF ch = 36 THEN [keysym |-> 52, needShift |-> TRUE]    \* '$' XK_4
    ELSE IF ch = 37 THEN [keysym |-> 53, needShift |-> TRUE]    \* '%' XK_5
    ELSE IF ch = 94 THEN [keysym |-> 54, needShift |-> TRUE]    \* '^' XK_6
    ELSE IF ch = 38 THEN [keysym |-> 55, needShift |-> TRUE]    \* '&' XK_7
    ELSE IF ch = 42 THEN [keysym |-> 56, needShift |-> TRUE]    \* '*' XK_8
    ELSE IF ch = 40 THEN [keysym |-> 57, needShift |-> TRUE]    \* '(' XK_9
    ELSE IF ch = 41 THEN [keysym |-> 48, needShift |-> TRUE]    \* ')' XK_0
    ELSE IF IsUpper(ch) THEN [keysym |-> ch + 32, needShift |-> TRUE]
    ELSE [keysym |-> ch, needShift |-> FALSE]

\* Client.typeChar
ClientTypeChar(ch) ==
    LET sel == ClientCharKeysym(ch)
        k == keysymToKeycode(sel.keysym)
        s == keysymToKeycode(XK_Shift_L)    \* error ignored: keycode 0
    IN  IF k.st # "ok" THEN Out(k.st, <<>>)
        ELSE IF ~sel.needShift THEN Out("ok", <<Press(k.kc), Release(k.kc)>>)
        ELSE IF s.st = "hang" THEN Out("hang", <<>>)
        ELSE Out("ok", <<Press(s.kc), Press(k.kc), Release(k.kc), Release(s.kc)>>)

\* Client.Type: the loop over the characters of text, from position i on
RECURSIVE ClientTypeFrom(_, _, _)
ClientTypeFrom(text, i, ev) ==
    IF i > Len(text) THEN Out("ok", ev)
    ELSE LET r == IF text[i] = NewlineByte THEN ClientKeyPress(S_Enter)
                  ELSE ClientTypeChar(text[i])
         IN  IF r.ret # "ok" THEN Out(r.ret, ev \o r.ev)
             ELSE ClientTypeFrom(text, i + 1, ev \o r.ev)

ClientType(text) == ClientTypeFrom(text, 1, <<>>)

\* the modifier switch of Client.KeyCombo
ModifierKeysym(part) ==
    IF part = S_ctrl THEN Sym(XK_Control_L)
    ELSE IF part = S_shift THEN Sym(XK_Shift_L)
    ELSE IF part = S_alt THEN Sym(XK_Alt_L)
    ELSE IF part \in {S_super, S_win, S_cmd} THEN Sym(XK_Super_L)
    ELSE NoKeysym

\* ComboModifiers with an unknown modifier token skipped instead of refused
ComboModifiersSkipUnknown(parts) ==
    LET n == Len(parts) - 1
        known == SelectSeq(SubSeq(parts, 1, n), LAMBDA part : ModifierKeysym(part).ok)
    IN  [ok |-> TRUE,
         mods |-> [i \in 1..Len(known) |-> ModifierKeysym(known[i]).keysym]]

\* "Separate modifiers from main key": every part but the last is a modifier
ComboModifiers(parts) ==
    LET n == Len(parts) - 1
    IN  [ok |-> \A i \in 1..n : ModifierKeysym(parts[i]).ok,
         mods |-> [i \in 1..n |-> ModifierKeysym(parts[i]).keysym]]

\* "Press all modifiers": in order, stopping at the first unresolved one
RECURSIVE PressModifiers(_, _, _)
PressModifiers(mods, i, ev) ==
    IF i > Len(mods) THEN Out("ok", ev)
    ELSE LET k == keysymToKeycode(mods[i])
         IN  IF k.st # "ok" THEN Out(k.st, ev)
             ELSE PressModifiers(mods, i + 1, Append(ev, Press(k.kc)))

\* ReleaseModifiers with the releases sent in the order of the presses
RECURSIVE ReleaseModifiersInPressOrder(_, _, _)
ReleaseModifiersInPressOrder(mods, i, ev) ==
    IF i < 1 THEN Out("ok", ev)
    ELSE LET k == keysymToKeycode(mods[Len(mods) + 1 - i])
         IN  IF k.st = "hang" THEN Out("hang", ev)
             ELSE ReleaseModifiersInPressOrder(mods, i - 1, Append(ev, Release(k.kc)))

\* "Release all modifiers in reverse order": i runs from len-1 down to 0,
\* the lookup error is dropped (keycode 0 is sent)
RECURSIVE ReleaseModifiers(_, _, _)
ReleaseModifiers(mods, i, ev) ==
    IF i < 1 THEN Out("ok", ev)
    ELSE LET k == keysymToKeycode(mods[i])
         IN  IF k.st = "hang" THEN Out("hang", ev)
             ELSE ReleaseModifiers(mods, i - 1, Append(ev, Release(k.kc)))

\* the main key of a combo: one byte is taken literally, else a key name
MainKeysym(mainKey) ==
    IF Len(mainKey) = 1 THEN Sym(mainKey[1]) ELSE keyNameToKeysym(mainKey)

\* Client.KeyCombo
ClientKeyCombo(combo) ==
    LET parts == Split(ToLower(combo))
        cm == ComboModifiers(parts)
        pressed == PressModifiers(cm.mods, 1, <<>>)
        main == MainKeysym(parts[Len(parts)])
        k == keysymToKeycode(main.keysym)
    IN  IF Len(parts) < 2 THEN Out("err", <<>>)
        ELSE IF ~cm.ok THEN Out("err", <<>>)
        ELSE IF pressed.ret # "ok" THEN pressed
        ELSE IF ~main.ok THEN Out("err", pressed.ev)
        ELSE IF k.st # "ok" THEN Out(k.st, pressed.ev)
        ELSE ReleaseModifiers(cm.mods, Len(cm.mods),
                              pressed.ev \o <<Press(k.kc), Release(k.kc)>>)

----------------------------------------------------------------------------
(* Inputs of the Client calls *)

\* Seq of length 0..n over the set S
RECURSIVE SeqsUpTo(_, _)
SeqsUpTo(S, n) ==
    IF n = 0 THEN {<<>>}
    ELSE LET shorter == SeqsUpTo(S, n - 1)
         IN  shorter \cup {Append(t, c) : t \in {u \in shorter : Len(u) = n - 1}, c \in S}

UpperLetters == 65..90
LowerLetters == 97..122
Digits == 48..57
\* ! @ # $ % ^ & * ( ) _ + { } | : " < > ? ~
ShiftRow == {33, 64, 35, 36, 37, 94, 38, 42, 40, 41, 95, 43, 123, 125, 124, 58, 34, 60, 62, 63, 126}

\* a H ! _ newline tab
TypeAlphabet == {97, 72, 33, 95, 10, 9}

\* "Hi!\nok"
SampleText == <<72, 105, 33, 10, 111, 107>>

ClientTexts ==
    SeqsUpTo(TypeAlphabet, MaxTextLen)
        \cup {<<ch>> : ch \in UpperLetters \cup LowerLetters \cup Digits \cup ShiftRow}
        \cup {SampleText}

\* the names keyNameToKeysym knows
KeyNames ==
    {S_Return, S_Enter, S_Tab, S_Escape, S_Esc, S_BackSpace, S_Backspace,
     S_Delete, S_Del, S_Home, S_End, S_Page_Up, S_PageUp, S_PgUp,
     S_Page_Down, S_PageDown, S_PgDn, S_Left, S_Right, S_Up, S_Down,
     S_tab, S_delete}

\* names given to KeyPress: the known ones, and "return", "foo", "", "a"
KeyPressArgs == KeyNames \cup {S_return, S_foo, <<>>, <<97>>}

ModifierNames == {S_ctrl, S_shift, S_alt, S_super, S_win, S_cmd}

\* strings.Join(tokens, "+")
RECURSIVE JoinPlus(_)
JoinPlus(tokens) ==
    IF Len(tokens) = 0 THEN <<>>
    ELSE IF Len(tokens) = 1 THEN tokens[1]
    ELSE tokens[1] \o <<PlusByte>> \o JoinPlus(Tail(tokens))

\* tokens of the generated multi-modifier combos: ctrl shift super foo
CoreTokens == {S_ctrl, S_shift, S_super, S_foo}
\* their targets: "t", "T", "Return", "tab", "plus", ""
CoreKeys == {<<116>>, <<84>>, S_Return, S_tab, S_plus, <<>>}
\* targets of the single-modifier combos: every key name, "c", "0", "=", "z", "plus", ""
SingleKeys == KeyNames \cup {<<99>>, <<48>>, <<61>>, <<122>>, S_plus, <<>>}

ComboArgs ==
    {JoinPlus(Append(ms, key)) :
        ms \in {t \in SeqsUpTo(CoreTokens, MaxMods) : Len(t) >= 1}, key \in CoreKeys}
    \cup {JoinPlus(<<m, key>>) : m \in ModifierNames \cup {S_Ctrl, S_foo, <<>>}, key \in SingleKeys}
    \cup {<<>>, S_ctrl, <<99>>, S_Return}

----------------------------------------------------------------------------
(* package x11: the calls of a Client's user, one at a time *)

ClientDo(op, arg, r) ==
    /\ cPc = "idle"
    /\ cCall' = [op |-> op, arg |-> arg]
    /\ cRet' = r.ret
    /\ cEvents' = r.ev
    /\ cPc' = IF r.ret = "hang" THEN "blocked" ELSE "returned"
    /\ UNCHANGED <<kbd, cPrev, xvars, mvars, svars, avars, rvars, hvars>>

Type == \E text \in ClientTexts : ClientDo("Type", text, ClientType(text))

KeyPress == \E key \in KeyPressArgs : ClientDo("KeyPress", key, ClientKeyPress(key))

KeyCombo == \E combo \in ComboArgs : ClientDo("KeyCombo", combo, ClientKeyCombo(combo))

\* the caller takes the result and goes on to its next call
ClientReturn ==
    /\ cPc = "returned"
    /\ cPc' = "idle"
    /\ cPrev' = [op |-> cCall.op, ret |-> cRet]
    /\ cCall' = [op |-> "none", arg |-> <<>>]
    /\ cRet' = "none"
    /\ cEvents' = <<>>
    /\ UNCHANGED <<kbd, xvars, mvars, svars, avars, rvars, hvars>>

ClientInit ==
    /\ cPc = "idle"
    /\ cCall = [op |-> "none", arg |-> <<>>]
    /\ cRet = "none"
    /\ cEvents = <<>>
    /\ cPrev = [op |-> "none", ret |-> "none"]

ClientNext == Type \/ KeyPress \/ KeyCombo \/ ClientReturn

----------------------------------------------------------------------------
(* package main: X11Controller *)

MaxFailAt == 3      \* a call's n-th request may be the one that fails, n <= MaxFailAt
MaxSpawn == 1       \* processes StartProgram may start in one run

\* a request on the connection and whether the server accepted it
Rq(req, a, b, ok) == [req |-> req, a |-> a, b |-> b, win |-> "root", ok |-> ok]

\* issue one more request after `pre`; it is the one that fails when its
\* number in the call is failAt
Issue(pre, req, a, b, failAt) == Append(pre, Rq(req, a, b, Len(pre) + 1 # failAt))
LastOk(reqs) == reqs[Len(reqs)].ok

XOut(ret, reqs) == [ret |-> ret, reqs |-> reqs]

\* checkConnection as seen by the k-th check of a call: the flag was true at
\* the start of the call and the monitor may clear it before check number
\* `lost` (0: it does not)
checkConnection(k, lost) == connAlive /\ (lost = 0 \/ k < lost)

\* X11Controller.MoveMouse, its connection check being the k-th of the call
XMoveMouse(xPos, yPos, pre, failAt, k, lost) ==
    IF ~checkConnection(k, lost) THEN XOut("err", pre)
    ELSE LET reqs == Issue(pre, "WarpPointer", xPos, yPos, failAt)
         IN  XOut(IF LastOk(reqs) THEN "ok" ELSE "err", reqs)

\* X11Controller.Click
XClick(button, pre, failAt, k, lost) ==
    IF ~checkConnection(k, lost) THEN XOut("err", pre)
    ELSE LET r1 == Issue(pre, "ButtonPress", button, 0, failAt)
             r2 == Issue(r1, "ButtonRelease", button, 0, failAt)
         IN  IF ~LastOk(r1) THEN XOut("err", r1)
             ELSE IF ~LastOk(r2) THEN XOut("err", r2)
             ELSE XOut("ok", r2)

\* ClickAt with the click sent before the pointer is moved
XClickAtClickFirst(xPos, yPos, button, failAt, lost) ==
    IF ~checkConnection(1, lost) THEN XOut("err", <<>>)
    ELSE LET c == XClick(button, <<>>, failAt, 2, lost)
         IN  IF c.ret # "ok" THEN c
             ELSE XMoveMouse(xPos, yPos, c.reqs, failAt, 3, lost)

\* X11Controller.ClickAt
XClickAt(xPos, yPos, button, failAt, lost) ==
    IF ~checkConnection(1, lost) THEN XOut("err", <<>>)
    ELSE LET m == XMoveMouse(xPos, yPos, <<>>, failAt, 2, lost)
         IN  IF m.ret # "ok" THEN m
             ELSE XClick(button, m.reqs, failAt, 3, lost)

----------------------------------------------------------------------------
(* package main: typing *)

\* keySymbols.GetKeycodes: the keycodes whose row holds keysym in some column;
\* keycodes[0] is the lowest of them
GetKeycodes(keysym) ==
    {keycode \in kbd.minKeycode..kbd.maxKeycode :
        \E col \in 0..(kbd.keysymsPerKeycode - 1) : RowSym(keycode, col) = keysym}
FirstOf(keycodes) == CHOOSE keycode \in keycodes : \A other \in keycodes : keycode <= other

\* keySymbols.StringToKeycodes(string(char)): the keycodes of the keysym that
\* the one-character string names, which for a Latin-1 character is its code
StringToKeycodes(char) == IF char >= 32 /\ char <= 255 THEN GetKeycodes(char) ELSE {}

\* keysyms.ConvertCase: the lower-case form of a Latin-1 letter keysym
ConvertCaseLower(keysym) == IF keysym >= 65 /\ keysym <= 90 THEN keysym + 32 ELSE keysym

\* the shifted characters X11Controller.typeChar knows, with their base keys
\* ! @ # $ % ^ & * ( ) _ + { } | : " < > ? ~
ShiftBase ==
    (33 :> 49) @@ (64 :> 50) @@ (35 :> 51) @@ (36 :> 52) @@ (37 :> 53) @@
    (94 :> 54) @@ (38 :> 55) @@ (42 :> 56) @@ (40 :> 57) @@ (41 :> 48) @@
    (95 :> 45) @@ (43 :> 61) @@ (123 :> 91) @@ (125 :> 93) @@ (124 :> 92) @@
    (58 :> 59) @@ (34 :> 39) @@ (60 :> 44) @@ (62 :> 46) @@ (63 :> 47) @@
    (126 :> 96)

\* the switch of X11Controller.typeChar
XCharKeysym(char) ==
    IF char = 10 THEN [keysym |-> XK_Return, needShift |-> FALSE]
    ELSE IF char = 9 THEN [keysym |-> XK_Tab, needShift |-> FALSE]
    ELSE IF char = 8 THEN [keysym |-> XK_BackSpace, needShift |-> FALSE]
    ELSE IF char >= 65 /\ char <= 90
         THEN [keysym |-> ConvertCaseLower(char), needShift |-> TRUE]
    ELSE IF char \in DOMAIN ShiftBase THEN [keysym |-> ShiftBase[char], needShift |-> TRUE]
    ELSE [keysym |-> char, needShift |-> FALSE]

\* fallback keycode of Shift when the mapping has none
ShiftFallbackKeycode == 50

\* xc.sendKeyEvent for each entry of evs (<<press, keycode>>), stopping at
\* the first one the server rejects
RECURSIVE SendKeyEvents(_, _, _)
SendKeyEvents(pre, evs, failAt) ==
    IF evs = <<>> THEN XOut("ok", pre)
    ELSE LET reqs == Issue(pre, IF evs[1][1] THEN "KeyPress" ELSE "KeyRelease",
                           evs[1][2], 0, failAt)
         IN  IF ~LastOk(reqs) THEN XOut("err", reqs)
             ELSE SendKeyEvents(reqs, Tail(evs), failAt)

\* X11Controller.typeChar
XTypeChar(char, pre, failAt) ==
    LET sel == XCharKeysym(char)
        direct == GetKeycodes(sel.keysym)
        keycodes == IF direct = {} THEN StringToKeycodes(char) ELSE direct
        keycode == FirstOf(keycodes)
        shifts == GetKeycodes(XK_Shift_L)
        shift == IF shifts = {} THEN ShiftFallbackKeycode ELSE FirstOf(shifts)
    IN  IF keycodes = {} THEN XOut("ok", pre)       \* skip unmapped characters
        ELSE IF sel.needShift
             THEN SendKeyEvents(pre, << <<TRUE, shift>>, <<TRUE, keycode>>,
                                        <<FALSE, keycode>>, <<FALSE, shift>> >>, failAt)
             ELSE SendKeyEvents(pre, << <<TRUE, keycode>>, <<FALSE, keycode>> >>, failAt)

\* X11Controller.typeCharWithModifier
XTypeCharWithModifier(char, modifier, pre, failAt) ==
    LET modKeysym == IF modifier = S_Ctrl THEN XK_Control_L
                     ELSE IF modifier = S_Alt THEN XK_Alt_L ELSE XK_Super_L
        modKeycodes == GetKeycodes(modKeysym)
        keysym == IF modifier = S_Ctrl /\ char >= 65 /\ char <= 90 THEN char + 32 ELSE char
        keycodes == GetKeycodes(keysym)
        m == FirstOf(modKeycodes)
        k == FirstOf(keycodes)
    IN  IF modifier \notin {S_Ctrl, S_Alt, S_Super} THEN XOut("err", pre)
        ELSE IF modKeycodes = {} THEN XOut("err", pre)
        ELSE IF keycodes = {} THEN XOut("err", pre)
        ELSE SendKeyEvents(pre, << <<TRUE, m>>, <<TRUE, k>>, <<FALSE, k>>, <<FALSE, m>> >>, failAt)

\* text[a:b] of Go (0-based, b exclusive)
Slice(text, a, b) == SubSeq(text, a + 1, b)
\* text[i] of Go
At(text, i) == text[i + 1]

\* the inline-modifier test at index i of TypeText: the modifier word found
\* before i and the index moved back over it
InlineModifier(text, i) ==
    IF i >= 4 /\ Slice(text, i - 4, i) = S_Ctrl THEN [modifier |-> S_Ctrl, i |-> i - 4]
    ELSE IF i >= 3 /\ Slice(text, i - 3, i) = S_Alt THEN [modifier |-> S_Alt, i |-> i - 3]
    ELSE IF i >= 5 /\ Slice(text, i - 5, i) = S_Super THEN [modifier |-> S_Super, i |-> i - 5]
    ELSE [modifier |-> <<>>, i |-> i]

\* the loop `for i < len(text)` of TypeText.  The index is the whole loop
\* state; once the loop has run more than len(text) iterations an index has
\* come back, and unless a request is still going to fail it repeats forever.
RECURSIVE XTypeLoop(_, _, _, _, _)
XTypeLoop(text, i, pre, failAt, iter) ==
    IF i >= Len(text) THEN XOut("ok", pre)
    ELSE IF iter > Len(text) /\ (failAt = 0 \/ Len(pre) >= failAt) THEN XOut("hang", pre)
    ELSE LET inl == IF i + 2 < Len(text) /\ At(text, i + 1) = PlusByte
                    THEN InlineModifier(text, i)
                    ELSE [modifier |-> <<>>, i |-> i]
             j == inl.i
             combo == XTypeCharWithModifier(At(text, j + 2), inl.modifier, pre, failAt)
             plain == XTypeChar(At(text, j), pre, failAt)
         IN  IF inl.modifier # <<>> /\ j + 2 < Len(text)
             THEN IF combo.ret # "ok" THEN combo
                  ELSE XTypeLoop(text, j + 3, combo.reqs, failAt, iter + 1)
             ELSE IF plain.ret # "ok" THEN plain
                  ELSE XTypeLoop(text, j + 1, plain.reqs, failAt, iter + 1)

\* what a GetInputFocus reply names: x.None, PointerRoot or a window
FocusReplies == {"None", "PointerRoot", "window"}

\* the targetWindow of TypeText
TargetWindow(focus) == IF focus \in {"None", "PointerRoot"} THEN "root" ELSE focus

\* X11Controller.TypeText; focus: the window the GetInputFocus reply names.
\* targetWindow is handed down to sendKeyEvent, which does not use it: every
\* FakeInput request names xc.root (Rq).
XTypeText(text, failAt, focus) ==
    IF ~checkConnection(1, 0) THEN XOut("err", <<>>)
    ELSE LET first == Issue(<<>>, "GetInputFocus", 0, 0, failAt)
             typed == XTypeLoop(text, 0, first, failAt, 0)
         IN  IF ~LastOk(first) THEN XOut("err", first)
             ELSE [ret |-> typed.ret, reqs |-> typed.reqs, focus |-> focus]


----------------------------------------------------------------------------
(* package main: capture and program start *)

\* X11Controller.captureScreen, its connection check being the k-th of the
\* call; depth is the depth of the GetImage reply
XCaptureScreen(depth, pre, failAt, k, lost) ==
    IF ~checkConnection(k, lost) THEN XOut("err", pre)
    ELSE LET reqs == Issue(pre, "GetImage", 0, 0, failAt)
         IN  IF ~LastOk(reqs) THEN XOut("err", reqs)
             ELSE IF depth = 24 \/ depth = 32 THEN XOut("ok", reqs)
             ELSE XOut("err", reqs)

\* X11Controller.TakeScreenshot (fileOk: os.Create and png.Encode succeed)
\* and X11Controller.GetScreenshotData
XScreenshot(depth, fileOk, failAt, lost) ==
    IF ~checkConnection(1, lost) THEN XOut("err", <<>>)
    ELSE LET img == XCaptureScreen(depth, <<>>, failAt, 2, lost)
         IN  IF img.ret # "ok" THEN img
             ELSE IF ~fileOk THEN XOut("err", img.reqs)
             ELSE img

\* the data of a GetImage reply for a screen of one pixel, BGRA: a red and a
\* blue screen
Frames == {<< <<0, 0, 255, 255>> >>, << <<255, 0, 0, 255>> >>}
RedFrame == << <<0, 0, 255, 255>> >>

\* captureScreen: each pixel of the reply, b g r a, becomes color.RGBA{r, g, b, a}
ImageOf(data) == [i \in 1..Len(data) |-> <<data[i][3], data[i][2], data[i][1], data[i][4]>>]

\* png.Encode: the signature, then the pixels in order
RECURSIVE Flatten(_)
Flatten(img) == IF img = <<>> THEN <<>> ELSE img[1] \o Flatten(Tail(img))
EncodePNG(img) == <<137, 80, 78, 71>> \o Flatten(img)

\* "shot.png"
S_shot == <<115, 104, 111, 116, 46, 112, 110, 103>>
Filenames == {<<>>, S_shot}

\* the take_screenshot handler: GetScreenshotData, then TakeScreenshot(f)
\* when a filename is given, whose error is only logged.  first, second:
\* what the screen shows at the GetImage request of each.
XTakeScreenshotTool(filename, first, second, depth, fileOk, failAt, saveFailAt) ==
    LET got == XScreenshot(depth, TRUE, failAt, 0)
        saved == XScreenshot(depth, fileOk, saveFailAt, 0)
    IN  IF got.ret # "ok" THEN [ret |-> "err", reqs |-> got.reqs, data |-> <<>>, file |-> <<>>]
        ELSE IF filename = <<>>
        THEN [ret |-> "ok", reqs |-> got.reqs, data |-> EncodePNG(ImageOf(first)), file |-> <<>>]
        ELSE [ret |-> "ok", reqs |-> got.reqs \o saved.reqs,
              data |-> EncodePNG(ImageOf(first)),
              file |-> IF saved.ret = "ok" THEN EncodePNG(ImageOf(second)) ELSE <<>>]

\* "xterm", "nosuch"
S_xterm == <<120, 116, 101, 114, 109>>
S_nosuch == <<110, 111, 115, 117, 99, 104>>
Programs == {S_xterm, S_nosuch}
\* the executables exec.LookPath finds
OnPath == {S_xterm}

\* StartProgram without the LookPath test: a missing executable gets as far
\* as cmd.Start
XStartProgramNoLookPath(program, startOk) ==
    IF ~checkConnection(1, 0) THEN [ret |-> "err", err |-> "connectionLost", started |-> FALSE]
    ELSE IF ~startOk THEN [ret |-> "err", err |-> "startFailed", started |-> FALSE]
    ELSE [ret |-> "ok", err |-> "none", started |-> TRUE]

\* X11Controller.StartProgram (startOk: cmd.Start succeeds); `started` tells
\* whether a process was created
XStartProgram(program, startOk) ==
    IF ~checkConnection(1, 0) THEN [ret |-> "err", err |-> "connectionLost", started |-> FALSE]
    ELSE IF program \notin OnPath THEN [ret |-> "err", err |-> "notFound", started |-> FALSE]
    ELSE IF ~startOk THEN [ret |-> "err", err |-> "startFailed", started |-> FALSE]
    ELSE [ret |-> "ok", err |-> "none", started |-> TRUE]

----------------------------------------------------------------------------
(* package main: the tool calls, one at a time, and the monitor *)

Coords == {<<0, 0>>, <<100, 50>>}
Buttons == 1..3
Depths == {24, 32, 8}

\* "Hi!\nok", "Ctrl+C", "Ctrl +C", "a" 0xC3 "b"
CtlSamples ==
    {SampleText, <<67, 116, 114, 108, 43, 67>>, <<67, 116, 114, 108, 32, 43, 67>>,
     <<97, 195, 98>>}
\* a H ! 0xC3
CtlAlphabet == {97, 72, 33, 195}
CtlTexts ==
    SeqsUpTo(CtlAlphabet, MaxTextLen)
        \cup {<<ch>> : ch \in UpperLetters \cup LowerLetters \cup Digits \cup ShiftRow \cup {9, 10}}
        \cup CtlSamples

\* which request of a call fails (0: none); nothing is chosen for a call
\* that is refused before its first request
FailPoints == IF connAlive THEN 0..MaxFailAt ELSE {0}
\* at which of its n connection checks a call first sees the flag cleared by
\* the monitor (0: at none); the first check is the one at the call's start
LostPoints(n) == IF connAlive /\ monPc # "done" THEN {0} \cup 2..n ELSE {0}

\* position of the pointer after the requests of a call
PointerAfter(reqs) ==
    LET warps == {n \in 1..Len(reqs) : reqs[n].req = "WarpPointer" /\ reqs[n].ok}
    IN  IF warps = {} THEN pointer
        ELSE LET n == CHOOSE m \in warps : \A o \in warps : o <= m
             IN  <<reqs[n].a, reqs[n].b>>

\* the message of the error a call returns; only StartProgram's messages
\* are told apart
ErrOf(r) ==
    IF r.ret # "err" THEN "none"
    ELSE IF "err" \in DOMAIN r THEN r.err
    ELSE "error"

\* the window that the GetInputFocus reply of a call named
FocusOf(r) == IF "focus" \in DOMAIN r THEN r.focus ELSE "none"

XDo(op, arg, failAt, lost, r) ==
    /\ xPc = "idle"
    /\ xCall' = [op |-> op, arg |-> arg, failAt |-> failAt, lost |-> lost, focus |-> FocusOf(r)]
    /\ xRet' = r.ret
    /\ xErr' = ErrOf(r)
    /\ xReqs' = r.reqs
    /\ xPc' = IF r.ret = "hang" THEN "blocked" ELSE "returned"
    /\ pointer' = PointerAfter(r.reqs)
    /\ connAlive' = (connAlive /\ lost = 0)
    /\ monPc' = IF lost # 0 THEN "done" ELSE monPc
    /\ UNCHANGED <<kbd, connOpen, cvars, mvars, svars, avars, rvars>>

GetScreenInfo ==
    /\ XDo("GetScreenInfo", <<>>, 0, 0, XOut(IF checkConnection(1, 0) THEN "ok" ELSE "err", <<>>))
    /\ UNCHANGED <<spawned, hvars>>

MoveMouse ==
    \E c \in Coords, failAt \in FailPoints :
        /\ XDo("MoveMouse", c, failAt, 0, XMoveMouse(c[1], c[2], <<>>, failAt, 1, 0))
        /\ UNCHANGED <<spawned, hvars>>

Click ==
    \E button \in Buttons, failAt \in FailPoints :
        /\ XDo("Click", <<button>>, failAt, 0, XClick(button, <<>>, failAt, 1, 0))
        /\ UNCHANGED <<spawned, hvars>>

ClickAt ==
    \E c \in Coords, button \in Buttons, failAt \in FailPoints, lost \in LostPoints(3) :
        /\ XDo("ClickAt", <<c[1], c[2], button>>, failAt, lost,
               XClickAt(c[1], c[2], button, failAt, lost))
        /\ UNCHANGED <<spawned, hvars>>

TypeText ==
    \E text \in CtlTexts, failAt \in FailPoints, focus \in FocusReplies :
        /\ XDo("TypeText", text, failAt, 0, XTypeText(text, failAt, focus))
        /\ UNCHANGED <<spawned, hvars>>

captureScreen ==
    \E depth \in Depths, failAt \in FailPoints :
        /\ XDo("captureScreen", <<depth>>, failAt, 0, XCaptureScreen(depth, <<>>, failAt, 1, 0))
        /\ UNCHANGED <<spawned, hvars>>

TakeScreenshot ==
    \E depth \in Depths, fileOk \in BOOLEAN, failAt \in FailPoints, lost \in LostPoints(2) :
        /\ XDo("TakeScreenshot", <<depth>>, failAt, lost, XScreenshot(depth, fileOk, failAt, lost))
        /\ UNCHANGED <<spawned, hvars>>

GetScreenshotData ==
    \E depth \in Depths, failAt \in FailPoints, lost \in LostPoints(2) :
        /\ XDo("GetScreenshotData", <<depth>>, failAt, lost, XScreenshot(depth, TRUE, failAt, lost))
        /\ UNCHANGED <<spawned, hvars>>

\* the take_screenshot tool call; other clients of the display may draw
\* between its two captures
take_screenshot ==
    \E filename \in Filenames, second \in Frames, depth \in Depths, fileOk \in BOOLEAN,
       failAt \in FailPoints, saveFailAt \in FailPoints :
        LET r == XTakeScreenshotTool(filename, screen, second, depth, fileOk, failAt, saveFailAt)
        IN  /\ (filename = <<>> \/ r.ret # "ok") => (second = screen /\ fileOk /\ saveFailAt = 0)
            /\ XDo("take_screenshot", filename, failAt, 0, r)
            /\ screen' = second
            /\ shotData' = r.data
            /\ shotFile' = r.file
            /\ UNCHANGED spawned

\* another client of the display draws on the screen
Draw ==
    /\ xPc = "idle"
    /\ screen' \in Frames \ {screen}
    /\ UNCHANGED <<shotData, shotFile, kbd, cvars, xvars, mvars, svars, avars, rvars>>

StartProgram ==
    \E program \in Programs, startOk \in BOOLEAN :
        LET r == XStartProgram(program, startOk)
        IN  /\ r.started => spawned < MaxSpawn
            /\ XDo("StartProgram", program, 0, 0, [ret |-> r.ret, reqs |-> <<>>, err |-> r.err])
            /\ spawned' = IF r.started THEN spawned + 1 ELSE spawned
            /\ UNCHANGED hvars

\* Close that releases the connection but leaves the liveness flag set
CloseLeavesFlag ==
    /\ xPc = "idle"
    /\ xCall' = [op |-> "Close", arg |-> <<>>, failAt |-> 0, lost |-> 0, focus |-> "none"]
    /\ xRet' = "ok"
    /\ xErr' = "none"
    /\ xReqs' = <<>>
    /\ xPc' = "returned"
    /\ connOpen' = FALSE
    /\ UNCHANGED <<kbd, connAlive, monPc, pointer, spawned, cvars, mvars, svars, avars, rvars, hvars>>

\* X11Controller.Close
Close ==
    /\ xPc = "idle"
    /\ xCall' = [op |-> "Close", arg |-> <<>>, failAt |-> 0, lost |-> 0, focus |-> "none"]
    /\ xRet' = "ok"
    /\ xErr' = "none"
    /\ xReqs' = <<>>
    /\ xPc' = "returned"
    /\ connAlive' = FALSE
    /\ connOpen' = FALSE
    /\ UNCHANGED <<kbd, monPc, pointer, spawned, cvars, mvars, svars, avars, rvars, hvars>>

\* the dispatcher sends the result and takes the next tool call
XReturn ==
    /\ xPc = "returned"
    /\ xPc' = "idle"
    /\ xCall' = [op |-> "none", arg |-> <<>>, failAt |-> 0, lost |-> 0, focus |-> "none"]
    /\ xRet' = "none"
    /\ xErr' = "none"
    /\ xReqs' = <<>>
    /\ UNCHANGED <<kbd, connAlive, connOpen, monPc, pointer, spawned, cvars, mvars, svars, avars, rvars, hvars>>

\* monitorConnection: the loop test `for xc.connAlive`
MonitorTest ==
    /\ monPc = "check"
    /\ monPc' = IF connAlive THEN "sleep" ELSE "done"
    /\ UNCHANGED <<kbd, connAlive, connOpen, pointer, spawned, xPc, xCall, xRet, xReqs, xErr, cvars, mvars, svars, avars, rvars, hvars>>

\* monitorConnection with no error handler installed: the failed round trip
\* ends the goroutine and the flag stays as it was
MonitorProbeNoHandler ==
    /\ monPc = "sleep"
    /\ \E ok \in (IF connOpen THEN BOOLEAN ELSE {FALSE}) :
        /\ monPc' = IF ok THEN "check" ELSE "done"
        /\ connAlive' = connAlive
    /\ UNCHANGED <<kbd, connOpen, pointer, spawned, xPc, xCall, xRet, xReqs, xErr, cvars, mvars, svars, avars, rvars, hvars>>

\* monitorConnection: after the sleep, the QueryPointer round trip; it fails
\* on a closed connection and may fail on an open one; the error handler
\* clears the flag and the goroutine returns
MonitorProbe ==
    /\ monPc = "sleep"
    /\ \E ok \in (IF connOpen THEN BOOLEAN ELSE {FALSE}) :
        /\ monPc' = IF ok THEN "check" ELSE "done"
        /\ connAlive' = (connAlive /\ ok)
    /\ UNCHANGED <<kbd, connOpen, pointer, spawned, xPc, xCall, xRet, xReqs, xErr, cvars, mvars, svars, avars, rvars, hvars>>

\* the state NewX11Controller returns
XInit ==
    /\ connAlive = TRUE
    /\ connOpen = TRUE
    /\ monPc = "check"
    /\ pointer = <<0, 0>>
    /\ spawned = 0
    /\ xPc = "idle"
    /\ xCall = [op |-> "none", arg |-> <<>>, failAt |-> 0, lost |-> 0, focus |-> "none"]
    /\ xRet = "none"
    /\ xErr = "none"
    /\ xReqs = <<>>

ShotInit ==
    /\ screen = RedFrame
    /\ shotData = <<>>
    /\ shotFile = <<>>

\* the tool server taking screenshots of a screen that changes
ShotNext ==
    \/ take_screenshot \/ Draw \/ Close \/ XReturn \/ MonitorTest \/ MonitorProbe

XNext ==
    \/ GetScreenInfo \/ MoveMouse \/ Click \/ ClickAt \/ TypeText
    \/ captureScreen \/ TakeScreenshot \/ GetScreenshotData \/ StartProgram
    \/ Close \/ XReturn \/ MonitorTest \/ MonitorProbe

----------------------------------------------------------------------------
(* package main: func main and its children (Xvfb, window manager, program) *)

Children == {"xvfb", "wm", "app"}

\* a child variable: "nil", "unstarted" (exec.Command assigned, Start failed,
\* so .Process is nil), "running", "reaped" (Wait has returned)
NoChildren == [c \in Children |-> "nil"]

\* the flags and what the machine offers: for each program whether it is not
\* configured ("none"), not on the path ("missing"), fails in Start
\* ("startErr") or starts ("ok"); display: DISPLAY is set in the environment
Configs ==
    [useXvfb : {TRUE}, display : {FALSE},
     xvfb : {"missing", "badResolution", "startErr", "ok"},
     wm : {"none", "missing", "startErr", "ok"},
     program : {"none", "missing", "startErr", "ok"}]
    \cup
    [useXvfb : {FALSE}, display : BOOLEAN, xvfb : {"ok"},
     wm : {"none", "missing", "startErr", "ok"},
     program : {"none", "missing", "startErr", "ok"}]

NoConfig == [useXvfb |-> FALSE, display |-> FALSE, xvfb |-> "ok", wm |-> "none", program |-> "none"]

\* the process has not exited
MainAlive == mainPc \notin {"fatal", "exited"}

\* exec.Command followed by Start on a child variable
StartChild(c, how) ==
    CASE how = "ok" -> [proc EXCEPT ![c] = "running"]
      [] how = "startErr" -> [proc EXCEPT ![c] = "unstarted"]
      [] OTHER -> proc

StartLog(c, how) == IF how = "ok" THEN Append(mlog, <<"start", c>>) ELSE mlog

\* one `if p != nil && p.Process != nil { p.Process.Kill(); p.Wait() }` of cleanup
KillAndReap(c) ==
    IF proc[c] \in {"nil", "unstarted"} THEN proc ELSE [proc EXCEPT ![c] = "reaped"]

KillLog(c) == IF proc[c] = "running" THEN Append(mlog, <<"kill", c>>) ELSE mlog

\* the position of cleanup after the child at position pc has been handled
CleanupOrder == [cleanup_app |-> "app", cleanup_wm |-> "wm", cleanup_xvfb |-> "xvfb"]
CleanupPcs == {"cleanup_app", "cleanup_wm", "cleanup_xvfb"}
AfterCleanup(pc, last) ==
    CASE pc = "cleanup_app" -> "cleanup_wm"
      [] pc = "cleanup_wm" -> "cleanup_xvfb"
      [] OTHER -> last

MaxScreens == 1     \* most screens in the setup of the X server
MaxServed == 2      \* tool calls dispatched in one run

\* what the X server can answer to NewX11Controller: whether x.NewConn
\* connects, how many screens the setup has, whether the QueryExtension
\* request is answered, whether its reply says XTEST is present, whether the
\* GetVersion request is answered
XSetups ==
    [connects : BOOLEAN, roots : 0..MaxScreens, queryOk : BOOLEAN,
     present : BOOLEAN, versionOk : BOOLEAN]

NoSetup == [connects |-> FALSE, roots |-> 0, queryOk |-> FALSE, present |-> FALSE, versionOk |-> FALSE]

NewX11ControllerErrNoPresent(s) ==
    IF ~s.connects THEN "failed to connect to X11"
    ELSE IF s.roots = 0 THEN "no screens found"
    ELSE IF ~s.queryOk THEN "failed to query XTEST extension"
    ELSE IF ~s.versionOk THEN "failed to get XTEST version"
    ELSE "none"

\* the error NewX11Controller returns, "none" when it returns a controller
NewX11ControllerErr(s) ==
    IF ~s.connects THEN "failed to connect to X11"
    ELSE IF s.roots = 0 THEN "no screens found"
    ELSE IF ~s.queryOk THEN "failed to query XTEST extension"
    ELSE IF ~s.present THEN "XTEST extension not present"
    ELSE IF ~s.versionOk THEN "failed to get XTEST version"
    ELSE "none"

\* flag.Parse
ParseFlags ==
    /\ mainPc = "flags"
    /\ config' \in Configs
    /\ mainPc' = "xvfb"
    /\ UNCHANGED <<sigPc, proc, mlog, xsetup, served, closes, kbd, cvars, xvars, svars, avars, rvars, hvars>>

\* main: `if config.UseXvfb { startXvfb } else if DISPLAY == "" { log.Fatal }`
startXvfb ==
    /\ mainPc = "xvfb"
    /\ LET fatal == IF config.useXvfb THEN config.xvfb # "ok" ELSE ~config.display
           how == IF config.useXvfb THEN config.xvfb ELSE "none"
       IN  /\ proc' = StartChild("xvfb", how)
           /\ mlog' = StartLog("xvfb", how)
           /\ mainPc' = IF fatal THEN "fatal" ELSE "wm"
           /\ sigPc' = IF fatal THEN "done" ELSE sigPc
    /\ UNCHANGED <<config, xsetup, served, closes, kbd, cvars, xvars, svars, avars, rvars, hvars>>

\* main: startWindowManager; its error is only logged
startWindowManager ==
    /\ mainPc = "wm"
    /\ proc' = StartChild("wm", config.wm)
    /\ mlog' = StartLog("wm", config.wm)
    /\ mainPc' = "app"
    /\ UNCHANGED <<sigPc, config, xsetup, served, closes, kbd, cvars, xvars, svars, avars, rvars, hvars>>

\* main: startProgram; its error is only logged
startProgram ==
    /\ mainPc = "app"
    /\ proc' = StartChild("app", config.program)
    /\ mlog' = StartLog("app", config.program)
    /\ mainPc' = "connect"
    /\ UNCHANGED <<sigPc, config, xsetup, served, closes, kbd, cvars, xvars, svars, avars, rvars, hvars>>

\* main: NewX11Controller; log.Fatal on its error
NewX11Controller ==
    /\ mainPc = "connect"
    /\ \E s \in XSetups :
        LET ok == NewX11ControllerErr(s) = "none"
        IN  /\ xsetup' = s
            /\ mainPc' = IF ok THEN "serve" ELSE "fatal"
            /\ sigPc' = IF ok THEN sigPc ELSE "done"
    /\ UNCHANGED <<config, proc, mlog, served, closes, kbd, cvars, xvars, svars, avars, rvars, hvars>>

\* server.Run dispatches one tool call to its handler
ServeCall ==
    /\ mainPc = "serve"
    /\ served < MaxServed
    /\ served' = served + 1
    /\ UNCHANGED <<mainPc, sigPc, config, proc, mlog, xsetup, closes, kbd, cvars, xvars, svars, avars, rvars, hvars>>

\* main: server.Run returns; on nil main returns and the deferred calls run,
\* the last deferred first; on an error log.Fatal exits at once
ServerRun ==
    /\ mainPc = "serve"
    /\ \E ok \in BOOLEAN :
        /\ mainPc' = IF ok THEN "close" ELSE "fatal"
        /\ sigPc' = IF ok THEN sigPc ELSE "done"
    /\ UNCHANGED <<config, proc, mlog, xsetup, served, closes, kbd, cvars, xvars, svars, avars, rvars, hvars>>

\* the deferred xc.Close() of main
DeferredClose ==
    /\ mainPc = "close"
    /\ closes' = closes + 1
    /\ mainPc' = "cleanup_app"
    /\ UNCHANGED <<sigPc, config, proc, mlog, xsetup, served, kbd, cvars, xvars, svars, avars, rvars, hvars>>

\* the deferred cleanup() of main, one child per step
MainCleanup ==
    /\ mainPc \in CleanupPcs
    /\ proc' = KillAndReap(CleanupOrder[mainPc])
    /\ mlog' = KillLog(CleanupOrder[mainPc])
    /\ mainPc' = AfterCleanup(mainPc, "exited")
    /\ sigPc' = IF mainPc = "cleanup_xvfb" THEN "done" ELSE sigPc
    /\ UNCHANGED <<config, xsetup, served, closes, kbd, cvars, xvars, svars, avars, rvars, hvars>>

\* an interrupt or SIGTERM reaches the goroutine waiting on the channel
Signal ==
    /\ MainAlive
    /\ mainPc # "flags"
    /\ sigPc = "wait"
    /\ sigPc' = "cleanup_app"
    /\ UNCHANGED <<mainPc, config, proc, mlog, xsetup, served, closes, kbd, cvars, xvars, svars, avars, rvars, hvars>>

\* cleanup() called by the signal goroutine, one child per step
SigCleanup ==
    /\ MainAlive
    /\ sigPc \in CleanupPcs
    /\ proc' = KillAndReap(CleanupOrder[sigPc])
    /\ mlog' = KillLog(CleanupOrder[sigPc])
    /\ sigPc' = AfterCleanup(sigPc, "exit")
    /\ UNCHANGED <<mainPc, config, xsetup, served, closes, kbd, cvars, xvars, svars, avars, rvars, hvars>>

\* os.Exit(0) of the signal goroutine
SigExit ==
    /\ MainAlive
    /\ sigPc = "exit"
    /\ mainPc' = "exited"
    /\ sigPc' = "done"
    /\ UNCHANGED <<config, proc, mlog, xsetup, served, closes, kbd, cvars, xvars, svars, avars, rvars, hvars>>

MainInit ==
    /\ mainPc = "flags"
    /\ sigPc = "wait"
    /\ config = NoConfig
    /\ proc = NoChildren
    /\ mlog = <<>>
    /\ xsetup = NoSetup
    /\ served = 0
    /\ closes = 0

MainNext ==
    \/ ParseFlags \/ startXvfb \/ startWindowManager \/ startProgram
    \/ NewX11Controller \/ ServeCall \/ ServerRun \/ DeferredClose \/ MainCleanup
    \/ Signal \/ SigCleanup \/ SigExit

----------------------------------------------------------------------------
(* package x11: ConnectWithOptions, Client.Close and the display they use *)

FirstDisplay == 99  \* `for i := 99; i < 200; i++`
MaxDisplays == 2    \* candidates of the scan (200 - 99 in the code)
MaxPolls == 2       \* test connections that fit in the 5 s window (100 ms apart)
MaxTaken == 1       \* displays in use by others before the process opens a Client

Displays == FirstDisplay..(FirstDisplay + MaxDisplays - 1)

\* the two Clients a process opens one after the other
ClientIds == {1, 2}
Owner(k) == IF k = 1 THEN "c1" ELSE "c2"

\* server[n]: "none", "ext" (a server of somebody else), "leak" (an Xvfb
\* started by a call that returned an error and did not kill it), or the
\* Client whose xvfbProcess it is
NoServers == [n \in Displays |-> "none"]

\* the two versions of ConnectWithOptions in the repository: the one that
\* tests lock file and socket, and the one that tests the lock file and
\* probes by starting Xvfb
Variants == {"sockets", "probe"}

Ev(e, n, ok) == [ev |-> e, n |-> n, ok |-> ok]

\* c.conn, c.display, c.xvfbProcess ("nil", "running", "dead": exited by
\* itself and not waited on, "reaped") and the window manager started for it
NoClient == [conn |-> "nil", display |-> 0, xvfb |-> "nil", wm |-> "none"]

SOut(ret, client, env, locks, socks, srv, trace) ==
    [ret |-> ret, client |-> client, env |-> env, locks |-> locks, socks |-> socks,
     srv |-> srv, trace |-> trace]

\* the test of one candidate of the scan
ScanFree(variant, n, probeOk) ==
    IF variant = "sockets"
    THEN n \notin lockFiles /\ n \notin sockets
    ELSE n \notin lockFiles /\ probeOk

\* the scan `for i := 99; i < 200; i++ { ...; break }`; 0: foundDisplay is false
ChooseDisplay(variant, probeOk) ==
    LET free == {n \in Displays : ScanFree(variant, n, probeOk)}
    IN  IF free = {} THEN 0 ELSE CHOOSE n \in free : \A m \in free : n <= m

\* the loop `for time.Since(startTime) < 5*time.Second`: test connections
\* until the first that succeeds; the server accepts connections from
\* attempt number readyAt on
Polls(n, readyAt) ==
    [i \in 1..(IF readyAt <= MaxPolls THEN readyAt ELSE MaxPolls) |-> Ev("poll", n, i >= readyAt)]

\* from `conn, err := x.NewConn()` to the return
\*   mine: the Xvfb of this call serves display n
FinishConnect(variant, opts, w, n, xvfb, mine, connOk, env, locks, socks, srv, tr) ==
    LET k == Len(clients) + 1
        own(tag) == IF mine THEN [srv EXCEPT ![n] = tag] ELSE srv
        wm == IF variant = "probe" /\ opts.startWM /\ w.wm = "ok" THEN "running" ELSE "none"
        wmEv == IF variant = "probe" /\ opts.startWM THEN <<Ev("startWM", n, w.wm = "ok")>> ELSE <<>>
    IN  IF ~connOk
        THEN SOut("err", NoClient, env, locks, socks, own("none"),
                  tr \o <<Ev("connect", n, FALSE)>>
                     \o (IF xvfb # "nil" THEN <<Ev("killXvfb", n, xvfb = "running")>> ELSE <<>>))
        ELSE IF w.screen = "noScreens"
        THEN SOut("err", NoClient, env, locks, socks, own("leak"),
                  tr \o <<Ev("connect", n, TRUE)>>)
        ELSE IF w.screen = "xtest"
        THEN SOut("err", NoClient, env, locks, socks, own("leak"),
                  tr \o <<Ev("connect", n, TRUE), Ev("closeConn", n, TRUE)>>)
        ELSE SOut("ok", [conn |-> "open", display |-> n, xvfb |-> xvfb, wm |-> wm],
                  env, locks, socks, own(Owner(k)),
                  tr \o <<Ev("connect", n, TRUE)>> \o wmEv)

\* the branch that starts Xvfb on the display the scan chose
Provision(variant, opts, w) ==
    LET n == ChooseDisplay(variant, w.probeOk)
        probes == IF variant = "probe" THEN <<Ev("probe", n, TRUE)>> ELSE <<>>
    IN  IF ~w.onPath
        THEN SOut("err", NoClient, envDisplay, lockFiles, sockets, server, <<>>)
        ELSE IF n = 0
        THEN SOut("err", NoClient, envDisplay, lockFiles, sockets, server, <<>>)
        ELSE IF ~w.startOk
        THEN SOut("err", NoClient, envDisplay, lockFiles, sockets, server,
                  probes \o <<Ev("startXvfb", n, FALSE)>>)
        ELSE LET taken == w.taken /\ server[n] = "none"
                 mine == server[n] = "none" /\ ~taken
                 srv == IF taken THEN [server EXCEPT ![n] = "ext"] ELSE server
                 bound == mine \/ taken
                 locks == IF bound THEN lockFiles \cup {n} ELSE lockFiles
                 socks == IF bound THEN sockets \cup {n} ELSE sockets
             IN  FinishConnect(variant, opts, w, n, IF mine THEN "running" ELSE "dead", mine,
                               w.readyAt <= MaxPolls + 1, n, locks, socks, srv,
                               probes \o <<Ev("startXvfb", n, TRUE)>>
                                      \o (IF mine THEN <<>> ELSE <<Ev("xvfbExit", n, TRUE)>>)
                                      \o Polls(n, w.readyAt))

\* ConnectWithOptions that looks at opts.Display only and not at DISPLAY
XConnectIgnoresEnv(variant, opts, w) ==
    LET display == opts.display
    IN  IF display = 0 /\ opts.startXvfb THEN Provision(variant, opts, w)
        ELSE IF display = 0
        THEN SOut("err", NoClient, envDisplay, lockFiles, sockets, server, <<>>)
        ELSE FinishConnect(variant, opts, w, display, "nil", FALSE, server[display] # "none",
                           display, lockFiles, sockets, server, <<>>)

\* ConnectWithOptions(opts)
XConnect(variant, opts, w) ==
    LET display == IF opts.display # 0 THEN opts.display ELSE envDisplay
    IN  IF display = 0 /\ opts.startXvfb THEN Provision(variant, opts, w)
        ELSE IF display = 0
        THEN SOut("err", NoClient, envDisplay, lockFiles, sockets, server, <<>>)
        ELSE FinishConnect(variant, opts, w, display, "nil", FALSE, server[display] # "none",
                           display, lockFiles, sockets, server, <<>>)

\* Client.Close that refuses a Client it has closed before
XCloseErrOnClosed(c) ==
    LET delivered == c.xvfb = "running"
        kill == IF c.xvfb # "nil" THEN <<Ev("killXvfb", c.display, delivered)>> ELSE <<>>
    IN  [ret |-> IF c.conn = "closed" THEN "err" ELSE "ok",
         client |-> [c EXCEPT !.conn = "closed",
                              !.xvfb = IF c.xvfb = "nil" THEN "nil" ELSE "reaped"],
         stopped |-> delivered,
         trace |-> <<Ev("closeConn", c.display, c.conn = "open")>> \o kill]

\* Client.Close: close the connection; Kill and Wait on xvfbProcess if set.
\* Kill delivers a signal only to a process that has not been waited on.
XClose(c) ==
    LET delivered == c.xvfb = "running"
        kill == IF c.xvfb # "nil" THEN <<Ev("killXvfb", c.display, delivered)>> ELSE <<>>
    IN  [ret |-> "ok",
         client |-> [c EXCEPT !.conn = "closed",
                              !.xvfb = IF c.xvfb = "nil" THEN "nil" ELSE "reaped"],
         stopped |-> delivered,
         trace |-> <<Ev("closeConn", c.display, c.conn = "open")>> \o kill]

\* the operations of a Client; usable: the connection is open and a server
\* answers on it. GetScreenInfo reads the cached screen; MouseMove and
\* MouseClick send FakeInput and return nil; the others need a reply.
XClientOp(c, op, arg, replyOk) ==
    LET usable == c.conn = "open" /\ server[c.display] # "none"
    IN  CASE op = "GetScreenInfo" -> "ok"
          [] op = "MouseMove" -> "ok"
          [] op = "MouseClick" -> "ok"
          [] op = "ListWindows" -> IF usable /\ replyOk THEN "ok" ELSE "err"
          [] op = "Type" ->
                IF usable THEN ClientType(arg).ret
                ELSE IF arg = <<>> THEN "ok" ELSE "err"
          [] op = "KeyPress" -> IF usable THEN ClientKeyPress(arg).ret ELSE "err"
          [] op = "KeyCombo" -> IF usable THEN ClientKeyCombo(arg).ret ELSE "err"

----------------------------------------------------------------------------
(* package x11: a process that opens, uses and closes Clients *)

NoOpts == [display |-> 0, startXvfb |-> FALSE, startWM |-> FALSE]
NoCall == [op |-> "none", k |-> 0, arg |-> <<>>, variant |-> "none", opts |-> NoOpts]

\* ConnectOptions; StartWM and WMName exist in the probing version only
OptsOf(variant) ==
    [display : {0, FirstDisplay}, startXvfb : BOOLEAN,
     startWM : IF variant = "probe" THEN BOOLEAN ELSE {FALSE}]

\* what the machine does during one call: Xvfb on the path, Start of the
\* probe and of the server succeeding, another server taking the display
\* between scan and bind, the attempt from which the server accepts
\* connections (MaxPolls + 1: the connection after the loop, MaxPolls + 2:
\* never), the screens and XTEST it reports, the window manager starting
Calm == [onPath |-> TRUE, probeOk |-> TRUE, startOk |-> TRUE, taken |-> FALSE,
         readyAt |-> 1, screen |-> "ok", wm |-> "ok"]

WorldsOf(variant, opts) ==
    LET wms == IF opts.startWM THEN {"ok", "fails"} ELSE {"ok"}
        tails == {[Calm EXCEPT !.wm = m] : m \in wms}
                    \cup {[Calm EXCEPT !.screen = sc] : sc \in {"noScreens", "xtest"}}
        display == IF opts.display # 0 THEN opts.display ELSE envDisplay
    IN  IF display # 0 THEN tails
        ELSE IF ~opts.startXvfb THEN {Calm}
        ELSE {[Calm EXCEPT !.onPath = FALSE], [Calm EXCEPT !.startOk = FALSE]}
             \cup (IF variant = "probe" THEN {[Calm EXCEPT !.probeOk = FALSE]} ELSE {})
             \cup tails
             \cup {[Calm EXCEPT !.taken = tk, !.readyAt = r] :
                     tk \in BOOLEAN, r \in 1..(MaxPolls + 2)}

\* files and servers that exist before the process opens its first Client
DisplayTaken ==
    /\ sPc = "idle"
    /\ build = "none"
    /\ Cardinality(lockFiles \cup sockets) < MaxTaken
    /\ \E n \in Displays, kind \in {"server", "socketOnly", "staleLock"} :
        /\ server[n] = "none" /\ n \notin lockFiles /\ n \notin sockets
        /\ lockFiles' = IF kind = "socketOnly" THEN lockFiles ELSE lockFiles \cup {n}
        /\ sockets' = IF kind = "staleLock" THEN sockets ELSE sockets \cup {n}
        /\ server' = IF kind = "staleLock" THEN server ELSE [server EXCEPT ![n] = "ext"]
    /\ UNCHANGED <<build, envDisplay, clients, sPc, sCall, sRet, sTrace, kbd, cvars, xvars, mvars, avars, rvars, hvars>>

\* os.Setenv("DISPLAY", ":n") by the caller
Setenv ==
    /\ sPc = "idle"
    /\ envDisplay # FirstDisplay
    /\ envDisplay' = FirstDisplay
    /\ UNCHANGED <<build, lockFiles, sockets, server, clients, sPc, sCall, sRet, sTrace,
                   kbd, cvars, xvars, mvars, avars, rvars, hvars>>

\* os.Unsetenv("DISPLAY") by the caller
Unsetenv ==
    /\ sPc = "idle"
    /\ envDisplay # 0
    /\ envDisplay' = 0
    /\ UNCHANGED <<build, lockFiles, sockets, server, clients, sPc, sCall, sRet, sTrace,
                   kbd, cvars, xvars, mvars, avars, rvars, hvars>>

\* one call of ConnectWithOptions and what it leaves behind
DoConnect(variant, opts, w) ==
    LET r == XConnect(variant, opts, w)
    IN  /\ sPc = "idle"
        /\ Len(clients) < Cardinality(ClientIds)
        /\ build' = variant
        /\ sCall' = [op |-> "Connect", k |-> Len(clients) + 1, arg |-> <<>>,
                     variant |-> variant, opts |-> opts]
        /\ sRet' = r.ret
        /\ sTrace' = r.trace
        /\ clients' = IF r.ret = "ok" THEN Append(clients, r.client) ELSE clients
        /\ envDisplay' = r.env
        /\ lockFiles' = r.locks
        /\ sockets' = r.socks
        /\ server' = r.srv
        /\ sPc' = "returned"
        /\ UNCHANGED <<kbd, cvars, xvars, mvars, avars, rvars, hvars>>

\* the version the process is built with
Builds == IF build = "none" THEN Variants ELSE {build}

ConnectWithOptions ==
    \E variant \in Builds :
        \E opts \in OptsOf(variant) :
            \E w \in WorldsOf(variant, opts) : DoConnect(variant, opts, w)

\* the options of Connect()
DefaultOpts(variant) == [display |-> 0, startXvfb |-> TRUE, startWM |-> variant = "probe"]

\* Connect()
Connect ==
    \E variant \in Builds :
        \E w \in WorldsOf(variant, DefaultOpts(variant)) :
            DoConnect(variant, DefaultOpts(variant), w)

CloseClient ==
    /\ sPc = "idle"
    /\ \E k \in 1..Len(clients) :
        LET r == XClose(clients[k])
        IN  /\ sCall' = [NoCall EXCEPT !.op = "Close", !.k = k]
            /\ sRet' = r.ret
            /\ sTrace' = r.trace
            /\ clients' = [clients EXCEPT ![k] = r.client]
            /\ server' = IF r.stopped /\ server[clients[k].display] = Owner(k)
                         THEN [server EXCEPT ![clients[k].display] = "none"]
                         ELSE server
    /\ sPc' = "returned"
    /\ UNCHANGED <<build, envDisplay, lockFiles, sockets, kbd, cvars, xvars, mvars, avars, rvars, hvars>>

\* one operation on Client k; replyOk: the server accepts the requests of
\* the call and answers them
SDo(op, k, arg, replyOk) ==
    /\ sPc = "idle"
    /\ k \in 1..Len(clients)
    /\ sCall' = [op |-> op, k |-> k, arg |-> arg, variant |-> "none", opts |-> NoOpts,
                  replyOk |-> replyOk]
    /\ sRet' = XClientOp(clients[k], op, arg, replyOk)
    /\ sTrace' = <<>>
    /\ sPc' = "returned"
    /\ UNCHANGED <<build, envDisplay, lockFiles, sockets, server, clients, kbd, cvars, xvars, mvars, avars, rvars, hvars>>

SessionGetScreenInfo == \E k \in ClientIds : SDo("GetScreenInfo", k, <<>>, TRUE)

MouseMove == \E k \in ClientIds, replyOk \in BOOLEAN : SDo("MouseMove", k, <<100, 50>>, replyOk)

MouseClick == \E k \in ClientIds, replyOk \in BOOLEAN : SDo("MouseClick", k, <<1>>, replyOk)

ListWindows == \E k \in ClientIds, replyOk \in BOOLEAN : SDo("ListWindows", k, <<>>, replyOk)

SessionType == \E k \in ClientIds, text \in {<<>>, <<97>>} : SDo("Type", k, text, TRUE)

SessionKeyPress == \E k \in ClientIds : SDo("KeyPress", k, S_Return, TRUE)

SessionKeyCombo == \E k \in ClientIds : SDo("KeyCombo", k, JoinPlus(<<S_ctrl, <<99>>>>), TRUE)

\* the caller takes the result
SessionReturn ==
    /\ sPc = "returned"
    /\ sPc' = "idle"
    /\ sCall' = NoCall
    /\ sRet' = "none"
    /\ sTrace' = <<>>
    /\ sPid' = 0
    /\ sErr' = "none"
    /\ sEnv' = <<>>
    /\ sText' = <<>>
    /\ UNCHANGED <<build, envDisplay, lockFiles, sockets, server, clients, apps, i3Connected,
                   kbd, cvars, xvars, mvars, hvars>>

SessionInit ==
    /\ build = "none"
    /\ envDisplay = 0
    /\ lockFiles = {}
    /\ sockets = {}
    /\ server = NoServers
    /\ clients = <<>>
    /\ sPc = "idle"
    /\ sCall = NoCall
    /\ sRet = "none"
    /\ sTrace = <<>>

\* opening and closing Clients with every option, on a machine whose
\* displays may be in use
SessionNext ==
    \/ DisplayTaken \/ Setenv \/ Unsetenv \/ ConnectWithOptions \/ CloseClient
    \/ SessionReturn

\* using the Clients that Connect() returns
UseNext ==
    \/ Unsetenv \/ Connect \/ CloseClient
    \/ SessionGetScreenInfo \/ MouseMove \/ MouseClick \/ ListWindows
    \/ SessionType \/ SessionKeyPress \/ SessionKeyCombo \/ SessionReturn

----------------------------------------------------------------------------
(* package x11: StartApp, StartAppWithEnv, StopApp and the children they make *)

MaxApps == 1        \* children StartApp may create in one run

\* "DISPLAY", "A", "AB", "="
S_DISPLAY == <<68, 73, 83, 80, 76, 65, 89>>
S_A == <<65>>
S_AB == <<65, 66>>
EqualsByte == 61
ColonByte == 58

\* strconv.Itoa for n >= 0 and fmt.Sprintf(":%d", n)
RECURSIVE Itoa(_)
Itoa(n) == IF n < 10 THEN <<48 + n>> ELSE Itoa(n \div 10) \o <<48 + (n % 10)>>
DisplayString(n) == <<ColonByte>> \o Itoa(n)

\* the entry "key=value" of an environment
Entry(key, value) == key \o <<EqualsByte>> \o value

\* `len(e) > len(prefix) && e[:len(prefix)] == prefix`
MatchesPrefix(e, prefix) == Len(e) > Len(prefix) /\ SubSeq(e, 1, Len(prefix)) = prefix

\* setEnv that compares with the name alone, without the "=" after it
setEnvNameOnly(env, key, value) ==
    LET hits == {i \in 1..Len(env) : MatchesPrefix(env[i], key)}
    IN  IF hits # {}
        THEN [env EXCEPT ![CHOOSE i \in hits : \A j \in hits : i <= j] =
                                key \o <<EqualsByte>> \o value]
        ELSE Append(env, key \o <<EqualsByte>> \o value)

\* setEnv: overwrite the first entry that starts with "key=" and has a
\* value, append when there is none
setEnv(env, key, value) ==
    LET prefix == key \o <<EqualsByte>>
        hits == {i \in 1..Len(env) : MatchesPrefix(env[i], prefix)}
    IN  IF hits # {}
        THEN [env EXCEPT ![CHOOSE i \in hits : \A j \in hits : i <= j] = prefix \o value]
        ELSE Append(env, prefix \o value)

\* `for k, v := range env { cmd.Env = setEnv(cmd.Env, k, v) }` for one order
\* of the map's keys
RECURSIVE SetAll(_, _, _)
SetAll(env, m, order) ==
    IF order = <<>> THEN env
    ELSE SetAll(setEnv(env, order[1], m[order[1]]), m, Tail(order))

\* the orders in which range may visit the keys of a map
Orders(keys) == {o \in SeqsUpTo(keys, Cardinality(keys)) :
                    Len(o) = Cardinality(keys) /\ \A k \in keys : \E i \in 1..Len(o) : o[i] = k}

\* cmd.Env of StartAppWithEnv
ChildEnv(environ, display, m, order) ==
    SetAll(setEnv(environ, S_DISPLAY, DisplayString(display)), m, order)

\* the name of an entry: the bytes before its first "="
EntryKey(e) ==
    LET eqs == {i \in 1..Len(e) : e[i] = EqualsByte}
    IN  IF eqs = {} THEN e ELSE SubSeq(e, 1, (CHOOSE i \in eqs : \A j \in eqs : i <= j) - 1)

\* what the child reads for a name: exec.Cmd uses the last entry of a name
\* that cmd.Env holds more than once; Unset (a NUL byte, which no value
\* contains) when there is none
Unset == <<0>>
Lookup(env, key) ==
    LET hits == {i \in 1..Len(env) : EntryKey(env[i]) = key}
    IN  IF hits = {} THEN Unset
        ELSE LET i == CHOOSE h \in hits : \A j \in hits : j <= h
             IN  SubSeq(env[i], Len(key) + 2, Len(env[i]))

\* os.Environ() of the process: DISPLAY as the process has it (an unset
\* DISPLAY may also be set and empty), then the rest, each name once
RestEnvs == {<<>>, <<Entry(S_A, <<>>)>>, <<Entry(S_AB, <<120>>), Entry(S_A, <<120>>)>>}
Environs ==
    LET first == IF envDisplay # 0 THEN {<<Entry(S_DISPLAY, DisplayString(envDisplay))>>}
                 ELSE {<<>>, <<Entry(S_DISPLAY, <<>>)>>}
    IN  {d \o rest : d \in first, rest \in RestEnvs}

\* the env argument: maps over A and DISPLAY
EnvMaps ==
    {[k \in keys |-> IF k = S_DISPLAY THEN DisplayString(7) ELSE <<121>>] :
        keys \in {{S_A}, {S_A, S_DISPLAY}}}

Apps == {S_xterm, S_nosuch}

NoApps == <<>>

\* Client.StartAppWithEnv: LookPath, the environment, Setpgid, Start
XStartAppWithEnv(c, app, environ, m, order, startOk) ==
    IF app \notin OnPath
    THEN [ret |-> "err", err |-> "notFound", pid |-> 0, apps |-> apps, env |-> <<>>]
    ELSE IF ~startOk
    THEN [ret |-> "err", err |-> "startFailed", pid |-> 0, apps |-> apps, env |-> <<>>]
    ELSE [ret |-> "ok", err |-> "none", pid |-> Len(apps) + 1,
          apps |-> Append(apps, [state |-> "running"]),
          env |-> ChildEnv(environ, c.display, m, order)]

\* Client.StopApp that sends SIGKILL whether or not SIGTERM was accepted
XStopAppAlwaysKills(pid, termOk, killOk, exits) ==
    LET child == pid \in 1..Len(apps) /\ apps[pid].state # "reaped"
        signals == <<Ev("SIGTERM", pid, termOk), Ev("SIGKILL", pid, killOk)>>
    IN  IF ~killOk
        THEN [ret |-> "err", err |-> "killFailed", apps |-> apps, trace |-> signals]
        ELSE [ret |-> "ok", err |-> "none",
              apps |-> IF child THEN [apps EXCEPT ![pid].state = "reaped"] ELSE apps,
              trace |-> Append(signals, Ev("Wait", pid, child))]

\* Client.StopApp: FindProcess (always a handle), SIGTERM, SIGKILL when the
\* handle reports that SIGTERM was not delivered, Wait. termOk, killOk: what
\* the handle reports; exits: a child that gets SIGTERM terminates (one that
\* ignores it keeps Wait from returning). Wait on a PID that is no child of
\* the process returns at once.
XStopApp(pid, termOk, killOk, exits) ==
    LET child == pid \in 1..Len(apps) /\ apps[pid].state # "reaped"
        term == Ev("SIGTERM", pid, termOk)
        signals == IF termOk THEN <<term>> ELSE <<term, Ev("SIGKILL", pid, killOk)>>
        stays == child /\ apps[pid].state = "running" /\ termOk /\ ~exits
    IN  IF ~termOk /\ ~killOk
        THEN [ret |-> "err", err |-> "killFailed", apps |-> apps, trace |-> signals]
        ELSE IF stays
        THEN [ret |-> "hang", err |-> "none", apps |-> apps,
              trace |-> Append(signals, Ev("Wait", pid, FALSE))]
        ELSE [ret |-> "ok", err |-> "none",
              apps |-> IF child THEN [apps EXCEPT ![pid].state = "reaped"] ELSE apps,
              trace |-> Append(signals, Ev("Wait", pid, child))]

\* ConnectWithOptions(ConnectOptions{Display: display, StartXvfb: false})
ExistingOpts(display) == [display |-> display, startXvfb |-> FALSE, startWM |-> FALSE]

\* the one Client of a process that starts applications
ConnectExisting ==
    /\ clients = <<>>
    /\ \E variant \in Builds, display \in Displays :
        \E w \in WorldsOf(variant, ExistingOpts(display)) :
            DoConnect(variant, ExistingOpts(display), w)

\* one call of StartApp or StartAppWithEnv on Client k
DoStartApp(op, k, app, environ, m, order, startOk) ==
    LET r == XStartAppWithEnv(clients[k], app, environ, m, order, startOk)
    IN  /\ sPc = "idle"
        /\ Len(r.apps) <= MaxApps
        /\ sCall' = [op |-> op, k |-> k, arg |-> app, variant |-> "none", opts |-> NoOpts,
                     environ |-> environ, env |-> m]
        /\ sRet' = r.ret
        /\ sErr' = r.err
        /\ sPid' = r.pid
        /\ sEnv' = r.env
        /\ apps' = r.apps
        /\ sTrace' = <<>>
        /\ sPc' = "returned"
        /\ UNCHANGED <<build, envDisplay, lockFiles, sockets, server, clients,
                       kbd, cvars, xvars, mvars, rvars, hvars>>

\* cmd.Start is reached only with an executable that LookPath found
StartOutcomes(app) == IF app \in OnPath THEN BOOLEAN ELSE {TRUE}

\* StartApp(app, args): StartAppWithEnv with a nil map
StartApp ==
    \E k \in 1..Len(clients), app \in Apps, environ \in Environs :
        \E startOk \in StartOutcomes(app) :
            DoStartApp("StartApp", k, app, environ, <<>>, <<>>, startOk)

StartAppWithEnv ==
    \E k \in 1..Len(clients), app \in Apps, environ \in Environs, m \in EnvMaps :
        \E order \in Orders(DOMAIN m), startOk \in StartOutcomes(app) :
            DoStartApp("StartAppWithEnv", k, app, environ, m, order, startOk)

\* a child started by StartApp terminates by itself
AppExits ==
    /\ \E pid \in 1..Len(apps) :
        /\ apps[pid].state = "running"
        /\ apps' = [apps EXCEPT ![pid].state = "exited"]
    /\ UNCHANGED <<sPid, sErr, sEnv, svars, kbd, cvars, xvars, mvars, rvars, hvars>>

\* StopApp with the PID of a child or with a PID that is no child
StopApp ==
    \E k \in 1..Len(clients), pid \in 1..(Len(apps) + 1), termOk \in BOOLEAN,
       killOk \in BOOLEAN, exits \in BOOLEAN :
        LET r == XStopApp(pid, termOk, killOk, exits)
        IN  /\ sPc = "idle"
            /\ sCall' = [NoCall EXCEPT !.op = "StopApp", !.k = k, !.arg = <<pid>>]
            /\ sRet' = r.ret
            /\ sErr' = r.err
            /\ sPid' = 0
            /\ sEnv' = <<>>
            /\ apps' = r.apps
            /\ sTrace' = r.trace
            /\ sPc' = IF r.ret = "hang" THEN "blocked" ELSE "returned"
            /\ UNCHANGED <<build, envDisplay, lockFiles, sockets, server, clients,
                           kbd, cvars, xvars, mvars, rvars, hvars>>

AppsInit ==
    /\ apps = NoApps
    /\ sPid = 0
    /\ sErr = "none"
    /\ sEnv = <<>>

\* a process that opens a Client and starts and stops applications on it
AppsNext ==
    \/ DisplayTaken \/ Setenv \/ Unsetenv \/ ConnectExisting
    \/ StartApp \/ StartAppWithEnv \/ AppExits \/ StopApp \/ SessionReturn

----------------------------------------------------------------------------
(* package x11: the i3 relay: ConnectI3, I3GetTree, I3Command *)

MaxReplies == 3     \* replies of i3 to one command string

\* the command strings of TestI3Command: "[con_id=100] focus", "workspace 2",
\* "" and "[class=\"Firefox\"] move to workspace 3; workspace 3"
S_focus == <<91, 99, 111, 110, 95, 105, 100, 61, 49, 48, 48, 93, 32, 102, 111, 99, 117, 115>>
S_workspace2 == <<119, 111, 114, 107, 115, 112, 97, 99, 101, 32, 50>>
S_complex == <<91, 99, 108, 97, 115, 115, 61, 34, 70, 105, 114, 101, 102, 111, 120, 34, 93, 32, 109, 111, 118, 101, 32, 116, 111, 32, 119, 111, 114, 107, 115, 112, 97, 99, 101, 32, 51, 59, 32, 119, 111, 114, 107, 115, 112, 97, 99, 101, 32, 51>>
Commands == {S_focus, S_workspace2, <<>>, S_complex}

\* the socket paths of TestI3Connection: "" and "/tmp/test-i3-socket"
S_socket == <<47, 116, 109, 112, 47, 116, 101, 115, 116, 45, 105, 51, 45, 115, 111, 99, 107, 101, 116>>
SocketPaths == {<<>>, S_socket}

\* a CommandResult of i3: Success, or not, with an error text or without
ReplyKinds == {"Success", "Error", "Failed"}

\* the text of I3Command: the one result, or fmt.Sprintf("%v", results)
FormatReplies(results) ==
    IF Len(results) = 1 THEN <<results[1]>> ELSE <<"[">> \o results \o <<"]">>

ROut(ret, err, text, trace) == [ret |-> ret, err |-> err, text |-> text, trace |-> trace]

\* Client.I3GetTree (treeOk: i3.GetTree succeeds)
XI3GetTree(treeOk) ==
    IF ~i3Connected THEN ROut("err", "notConnected", <<>>, <<>>)
    ELSE IF ~treeOk THEN ROut("err", "relayFailed", <<>>, <<Ev("GetTree", 0, FALSE)>>)
    ELSE ROut("ok", "none", <<"tree">>, <<Ev("GetTree", 0, TRUE)>>)

\* I3Command that tests the command before the relay
XI3CommandEmptyFirst(command, runOk, replies) ==
    IF command = <<>> THEN ROut("err", "emptyCommand", <<>>, <<>>)
    ELSE IF ~i3Connected THEN ROut("err", "notConnected", <<>>, <<>>)
    ELSE IF ~runOk THEN ROut("err", "relayFailed", <<>>, <<Ev("RunCommand", 0, FALSE)>>)
    ELSE ROut("ok", "none", FormatReplies(replies), <<Ev("RunCommand", 0, TRUE)>>)

\* Client.I3Command (runOk: i3.RunCommand returns no error; replies: its results)
XI3Command(command, runOk, replies) ==
    IF ~i3Connected THEN ROut("err", "notConnected", <<>>, <<>>)
    ELSE IF command = <<>> THEN ROut("err", "emptyCommand", <<>>, <<>>)
    ELSE IF ~runOk THEN ROut("err", "relayFailed", <<>>, <<Ev("RunCommand", 0, FALSE)>>)
    ELSE ROut("ok", "none", FormatReplies(replies), <<Ev("RunCommand", 0, TRUE)>>)

\* one relay call and its report
RDo(op, arg, r) ==
    /\ sPc = "idle"
    /\ sCall' = [NoCall EXCEPT !.op = op, !.arg = arg]
    /\ sRet' = r.ret
    /\ sErr' = r.err
    /\ sText' = r.text
    /\ sTrace' = r.trace
    /\ sPc' = "returned"
    /\ UNCHANGED <<build, envDisplay, lockFiles, sockets, server, clients, apps, sPid, sEnv,
                   kbd, cvars, xvars, mvars, hvars>>

\* Client.ConnectI3: i3.GetVersion decides the flag; the error is never returned
ConnectI3 ==
    \E socketPath \in SocketPaths, versionOk \in BOOLEAN :
        /\ RDo("ConnectI3", socketPath, ROut("ok", "none", <<>>, <<Ev("GetVersion", 0, versionOk)>>))
        /\ i3Connected' = versionOk

I3GetTree ==
    \E treeOk \in BOOLEAN :
        /\ RDo("I3GetTree", <<>>, XI3GetTree(treeOk))
        /\ UNCHANGED i3Connected

I3Command ==
    \E command \in Commands, runOk \in BOOLEAN, replies \in SeqsUpTo(ReplyKinds, MaxReplies) :
        /\ (~runOk => replies = <<>>)
        /\ RDo("I3Command", command, XI3Command(command, runOk, replies))
        /\ UNCHANGED i3Connected

\* `client := &Client{}`
RelayInit ==
    /\ i3Connected = FALSE
    /\ sText = <<>>

RelayNext == ConnectI3 \/ I3GetTree \/ I3Command \/ SessionReturn

----------------------------------------------------------------------------
(* Specifications *)

vars == <<kbd, cvars, xvars, mvars, svars, avars, rvars, hvars>>

Init ==
    /\ kbd \in Keyboards /\ ClientInit /\ XInit /\ MainInit /\ SessionInit /\ AppsInit
    /\ RelayInit /\ ShotInit

\* a user of package x11 driving a Client
SpecClient == Init /\ [][ClientNext]_vars

\* the tool server of package main driving its X11Controller
SpecController == Init /\ [][XNext]_vars

\* the tool server serving take_screenshot
SpecScreenshot == Init /\ [][ShotNext]_vars

\* func main of package main supervising its children
SpecMain == Init /\ [][MainNext]_vars

\* the display servers of a session have the full US keyboard
USKeyboard == [minKeycode |-> 8, maxKeycode |-> 140, keysymsPerKeycode |-> 2, top |-> 133]

USInit == Init /\ kbd = USKeyboard

\* a process using package x11 to open, use and close Clients
SpecSession == USInit /\ [][SessionNext]_vars

\* a process using the Clients it opened with Connect()
SpecUse == USInit /\ [][UseNext]_vars

\* a user of package x11 starting and stopping applications
SpecApps == USInit /\ [][AppsNext]_vars

\* launching programs: the server's start_program tool in one process, the
\* applications of a Client in another
LaunchNext ==
    \/ (SessionInit /\ AppsInit /\ RelayInit
          /\ (StartProgram \/ Close \/ XReturn \/ MonitorTest \/ MonitorProbe))
    \/ (XInit /\ AppsNext)

SpecLaunch == USInit /\ [][LaunchNext]_vars

\* a user of the i3 relay operations
SpecRelay == USInit /\ [][RelayNext]_vars

\* a run of one of the two programs: the tool server closing its
\* X11Controller, or a process of package x11 closing its Clients
TeardownNext == (SessionInit /\ XNext) \/ (XInit /\ SessionNext)

SpecTeardown == USInit /\ [][TeardownNext]_vars

\* both programs side by side; they are separate processes that share
\* nothing but the kind of server they talk to
Next ==
    \/ ClientNext \/ XNext \/ ShotNext \/ MainNext \/ SessionNext \/ UseNext \/ AppsNext
    \/ RelayNext

Spec == Init /\ [][Next]_vars

----------------------------------------------------------------------------
(* Vocabulary of the properties *)

\* the keyboard has a key carrying keysym
HasKey(keysym) ==
    \E keycode \in kbd.minKeycode..kbd.maxKeycode, col \in 0..1 : RowSym(keycode, col) = keysym

\* the lowest keycode carrying sym in the given column
KeycodeInCol(sym, col) ==
    CHOOSE keycode \in kbd.minKeycode..kbd.maxKeycode :
        /\ RowSym(keycode, col) = sym
        /\ \A lower \in kbd.minKeycode..(keycode - 1) : RowSym(lower, col) # sym

\* the lowest keycode carrying keysym at all
KeycodeFor(keysym) ==
    CHOOSE keycode \in kbd.minKeycode..kbd.maxKeycode :
        /\ \E col \in 0..1 : RowSym(keycode, col) = keysym
        /\ \A lower \in kbd.minKeycode..(keycode - 1), col \in 0..1 : RowSym(lower, col) # keysym

ModifierSymbol ==
    (S_ctrl :> XK_Control_L) @@ (S_shift :> XK_Shift_L) @@ (S_alt :> XK_Alt_L) @@
    (S_super :> XK_Super_L) @@ (S_win :> XK_Super_L) @@ (S_cmd :> XK_Super_L)

\* keycodes a sequence of events leaves pressed
HeldKeys(ev) ==
    {kc \in {ev[i].detail : i \in 1..Len(ev)} :
        Cardinality({i \in 1..Len(ev) : ev[i] = Press(kc)})
            > Cardinality({i \in 1..Len(ev) : ev[i] = Release(kc)})}

\* the '+' separated tokens of a combo, read off the positions of '+'
PlusPositions(s) == {i \in 1..Len(s) : s[i] = PlusByte}
NonFinalTokens(s) ==
    {SubSeq(s, (CHOOSE a \in {0} \cup PlusPositions(s) :
                    a < b /\ \A c \in PlusPositions(s) : c < b => c <= a) + 1, b - 1) :
        b \in PlusPositions(s)}

RECURSIVE Concat(_)
Concat(seqs) == IF seqs = <<>> THEN <<>> ELSE seqs[1] \o Concat(Tail(seqs))

\* the key events among the requests of a controller call
KeyEventsOf(reqs) ==
    LET keys == SelectSeq(reqs, LAMBDA r : r.req \in {"KeyPress", "KeyRelease"})
    IN  [i \in 1..Len(keys) |-> [type |-> keys[i].req, detail |-> keys[i].a]]

----------------------------------------------------------------------------
(* C1 *)

C1ModSeqs == {ms \in SeqsUpTo(ModifierNames, MaxMods) : Len(ms) >= 1}
\* "t", "c", "0", "=", "z", "tab", "delete"
C1Targets == {<<116>>, <<99>>, <<48>>, <<61>>, <<122>>, S_tab, S_delete}
C1TargetSymbol(key) ==
    IF Len(key) = 1 THEN key[1] ELSE IF key = S_tab THEN XK_Tab ELSE XK_Delete

C1Expected(ms, key) ==
    LET n == Len(ms)
        K == KeycodeFor(C1TargetSymbol(key))
    IN  [i \in 1..n |-> Press(KeycodeFor(ModifierSymbol[ms[i]]))]
            \o <<Press(K), Release(K)>>
            \o [i \in 1..n |-> Release(KeycodeFor(ModifierSymbol[ms[n + 1 - i]]))]

\* C1: for a combo m1+...+mk+key whose tokens all resolve, Client.KeyCombo
\* returns success having emitted exactly press(m1) .. press(mk), press(key),
\* release(key), release(mk) .. release(m1).
C1_KeyComboSequence ==
    cCall.op = "KeyCombo" =>
        \A ms \in C1ModSeqs, key \in C1Targets :
            ( /\ cCall.arg = JoinPlus(Append(ms, key))
              /\ \A i \in 1..Len(ms) : HasKey(ModifierSymbol[ms[i]])
              /\ HasKey(C1TargetSymbol(key)) )
            => /\ cPc = "returned"
               /\ cRet = "ok"
               /\ cEvents = C1Expected(ms, key)

\* "ctrl+shift+t" has returned with its six events
C1_Witness ==
    /\ cPc = "returned"
    /\ cCall.op = "KeyCombo"
    /\ cCall.arg = JoinPlus(<<S_ctrl, S_shift, <<116>> >>)
    /\ cRet = "ok"
    /\ Len(cEvents) = 6

----------------------------------------------------------------------------
(* C2 *)

\* C2: whenever a Client.KeyCombo call returns, with success or with an
\* error, every modifier it pressed has been released.
C2_ComboCleanupSymmetric ==
    (cPc = "returned" /\ cCall.op = "KeyCombo") => HeldKeys(cEvents) = {}

----------------------------------------------------------------------------
(* C3 *)

C3Bracketed(ch) ==
    LET S == KeycodeFor(XK_Shift_L)
        B == KeycodeInCol(ch, 1)
    IN  <<Press(S), Press(B), Release(B), Release(S)>>

C3Plain(ch) == LET K == KeycodeInCol(ch, 0) IN <<Press(K), Release(K)>>

C3Expected(ch) ==
    IF ch \in UpperLetters \cup ShiftRow THEN C3Bracketed(ch) ELSE C3Plain(ch)

C3Chars == UpperLetters \cup ShiftRow \cup LowerLetters \cup Digits

\* the controller part: X11Controller.typeChar on one character, no request
\* rejected
C3_Controller ==
    ( /\ xCall.op = "TypeText"
      /\ Len(xCall.arg) = 1
      /\ xRet = "ok"
      /\ xCall.arg[1] \in C3Chars )
    => KeyEventsOf(xReqs) = C3Expected(xCall.arg[1])

\* the client part: Client.typeChar on one character
C3_Client ==
    ( /\ cCall.op = "Type"
      /\ Len(cCall.arg) = 1
      /\ cCall.arg[1] \in C3Chars )
    => (cRet = "ok" /\ cEvents = C3Expected(cCall.arg[1]))

\* C3: for every uppercase letter and every symbol of the shift row, typeChar
\* emits Shift press, base key press, base key release, Shift release; for
\* every lowercase letter and digit only key press and key release; in
\* Client.typeChar and in X11Controller.typeChar alike.
C3_ShiftBracketing == C3_Client /\ C3_Controller

----------------------------------------------------------------------------
(* C4 *)

C4CharEvents(ch) ==
    IF ch = NewlineByte
    THEN <<Press(KeycodeFor(XK_Return)), Release(KeycodeFor(XK_Return))>>
    ELSE ClientTypeChar(ch).ev

\* C4: Client.Type emits, in text order, one Return press+release for each
\* newline and the typeChar sequence of every other character.
C4_TypeInOrder ==
    cCall.op = "Type" =>
        cEvents = Concat([i \in 1..Len(cCall.arg) |-> C4CharEvents(cCall.arg[i])])

----------------------------------------------------------------------------
(* C6 *)

C6ClientUnmappable(ch) == ch # NewlineByte /\ ~HasKey(ClientCharKeysym(ch).keysym)
C6ControllerUnmappable(ch) == ~HasKey(XCharKeysym(ch).keysym) /\ ~HasKey(ch)

C6_Client ==
    ( /\ cCall.op = "Type"
      /\ \E i \in 1..Len(cCall.arg) : C6ClientUnmappable(cCall.arg[i]) )
    => /\ cPc = "returned"
       /\ cRet = "ok"
       /\ cEvents = Concat([i \in 1..Len(cCall.arg) |->
                               IF C6ClientUnmappable(cCall.arg[i]) THEN <<>>
                               ELSE C4CharEvents(cCall.arg[i])])

\* texts without '+' (no inline modifier), no request rejected
C6_Controller ==
    ( /\ xCall.op = "TypeText"
      /\ xRet # "err"
      /\ xCall.failAt = 0
      /\ PlusPositions(xCall.arg) = {}
      /\ \E i \in 1..Len(xCall.arg) : C6ControllerUnmappable(xCall.arg[i]) )
    => /\ xRet = "ok"
       /\ KeyEventsOf(xReqs) =
            Concat([i \in 1..Len(xCall.arg) |->
                       IF C6ControllerUnmappable(xCall.arg[i]) THEN <<>>
                       ELSE KeyEventsOf(XTypeChar(xCall.arg[i], <<>>, 0).reqs)])

\* C6: a character without keycode is skipped, the events of the other
\* characters are still emitted in order and the call returns success, in
\* Client.Type and in X11Controller.TypeText alike.
C6_BestEffortTyping == C6_Client /\ C6_Controller

----------------------------------------------------------------------------
(* C7 *)

\* C7: a combo with fewer than two tokens, or with an unknown modifier in a
\* non-final position, is refused with an error before any event is emitted.
C7_MalformedComboRejected ==
    ( /\ cCall.op = "KeyCombo"
      /\ \/ PlusPositions(cCall.arg) = {}
         \/ \E t \in NonFinalTokens(cCall.arg) : ToLower(t) \notin ModifierNames )
    => /\ cPc = "returned"
       /\ cRet = "err"
       /\ cEvents = <<>>

\* "ctrl+foo+t" was refused: a known modifier stands before the unknown one
C7_Witness ==
    /\ cPc = "returned"
    /\ cCall.op = "KeyCombo"
    /\ cCall.arg = JoinPlus(<<S_ctrl, S_foo, <<116>> >>)
    /\ cRet = "err"

----------------------------------------------------------------------------
(* C8 *)

C8Resolvable(key) == key \in KeyNames /\ HasKey(keyNameToKeysym(key).keysym)

\* C8: Client.KeyPress with a name outside the key table, or one whose keysym
\* has no keycode, returns an error and emits no event; a valid KeyPress that
\* follows a failed one succeeds.
C8_KeyPressErrorIsLocal ==
    cCall.op = "KeyPress" =>
        /\ ~C8Resolvable(cCall.arg) =>
              (cPc = "returned" /\ cRet = "err" /\ cEvents = <<>>)
        /\ (C8Resolvable(cCall.arg) /\ cPrev = [op |-> "KeyPress", ret |-> "err"]) =>
              (cPc = "returned" /\ cRet = "ok" /\ Len(cEvents) = 2)

----------------------------------------------------------------------------
(* C9 *)

C9Names ==
    {S_Return, S_Enter, S_Tab, S_Escape, S_BackSpace, S_Delete, S_Home, S_End,
     S_Page_Up, S_PageUp, S_Page_Down, S_PageDown, S_Left, S_Right, S_Up, S_Down}

\* C9: for every special-key name that KeyPress accepts and every modifier m,
\* KeyCombo(m + "+" + name) succeeds and presses and releases the key that
\* KeyPress(name) presses.
C9_ComboTargetSpecialKey ==
    cCall.op = "KeyCombo" =>
        \A m \in ModifierNames, name \in C9Names :
            ( /\ cCall.arg = JoinPlus(<<m, name>>)
              /\ HasKey(ModifierSymbol[m])
              /\ HasKey(keyNameToKeysym(name).keysym) )
            => LET M == KeycodeFor(ModifierSymbol[m])
                   K == KeycodeFor(keyNameToKeysym(name).keysym)
               IN  /\ cPc = "returned"
                   /\ cRet = "ok"
                   /\ cEvents = <<Press(M), Press(K), Release(K), Release(M)>>

----------------------------------------------------------------------------
(* C5 *)

\* C5: once X11Controller.Close() has returned, every operation that is
\* called (GetScreenInfo, MoveMouse, Click, ClickAt, TypeText, captureScreen,
\* TakeScreenshot, GetScreenshotData, StartProgram) returns an error, issues
\* no request on the connection and starts no process.
C5_ClosedSessionRefuses ==
    [][ (~connOpen /\ xPc = "idle" /\ xPc' # "idle" /\ xCall'.op # "Close")
        => (xRet' = "err" /\ xReqs' = <<>> /\ spawned' = spawned) ]_vars

\* StartProgram of an installed program was refused on the closed session
C5_Witness ==
    /\ ~connOpen
    /\ xPc = "returned"
    /\ xCall.op = "StartProgram"
    /\ xCall.arg = S_xterm
    /\ xRet = "err"
    /\ spawned = 0

----------------------------------------------------------------------------
(* C10 *)

C10Full(xPos, yPos, button) ==
    <<Rq("WarpPointer", xPos, yPos, TRUE), Rq("ButtonPress", button, 0, TRUE),
      Rq("ButtonRelease", button, 0, TRUE)>>

\* C10: ClickAt(x, y, button) issues the pointer warp to (x, y), then the
\* button press, then the button release, as MoveMouse followed by Click do;
\* nothing is issued after a request that failed, and the pointer is at
\* (x, y) when the press is issued.
C10_ClickAtIsMoveThenClick ==
    [][ (xPc = "idle" /\ xCall'.op = "ClickAt") =>
        LET xPos == xCall'.arg[1]
            yPos == xCall'.arg[2]
            button == xCall'.arg[3]
            n == Len(xReqs')
        IN  /\ n <= 3
            /\ \A i \in 1..n : [xReqs'[i] EXCEPT !.ok = TRUE] = C10Full(xPos, yPos, button)[i]
            /\ \A i \in 1..(n - 1) : xReqs'[i].ok
            /\ (xRet' = "ok") <=> (n = 3 /\ xReqs'[3].ok)
            /\ (connAlive /\ xCall'.failAt = 0 /\ xCall'.lost = 0) =>
                  /\ xRet' = "ok"
                  /\ xReqs' = XMoveMouse(xPos, yPos, <<>>, 0, 1, 0).reqs
                                \o XClick(button, <<>>, 0, 1, 0).reqs
            /\ n >= 2 => pointer' = <<xPos, yPos>>
      ]_vars

\* a ClickAt(100, 50, 1) has completed with its three requests
C10_Witness ==
    /\ xPc = "returned"
    /\ xCall.op = "ClickAt"
    /\ xCall.arg = <<100, 50, 1>>
    /\ xRet = "ok"
    /\ Len(xReqs) = 3
    /\ pointer = <<100, 50>>

----------------------------------------------------------------------------
(* C11 *)

\* a step that starts child c, and one that sends it the kill signal
Starts(c) == proc[c] # "running" /\ proc'[c] = "running"
Kills(c) == proc[c] = "running" /\ proc'[c] = "reaped"

\* C11: main starts the display server, then the window manager, then the
\* program, and cleanup() kills and reaps them in the order program, window
\* manager, display server: no child is killed while a child that was
\* started after it is still alive.
C11_TeardownReversesStartup ==
    [][ /\ Starts("xvfb") => (proc["wm"] = "nil" /\ proc["app"] = "nil")
        /\ Starts("wm") => proc["app"] = "nil"
        /\ Kills("xvfb") => (proc["wm"] # "running" /\ proc["app"] # "running")
        /\ Kills("wm") => proc["app"] # "running"
      ]_vars

----------------------------------------------------------------------------
(* Vocabulary of the session properties *)

\* Client.IsXvfbManaged and Client.GetDisplay
IsXvfbManaged(c) == c.xvfb # "nil"
GetDisplay(c) == c.display

\* the step is a return of ConnectWithOptions
ConnectStep == sPc = "idle" /\ sPc' = "returned" /\ sCall'.op = "Connect"
\* the Client a successful ConnectWithOptions step returns
NewClient == clients'[Len(clients')]

\* the events of one kind in a trace
EventsOf(tr, e) == {i \in 1..Len(tr) : tr[i].ev = e}

\* the smallest member of a non-empty set of display numbers
Smallest(S) == CHOOSE n \in S : \A m \in S : n <= m

----------------------------------------------------------------------------
(* C12 *)

\* C12: when Client.Close() has returned on a Client for which
\* ConnectWithOptions started a window manager, that window manager has been
\* terminated and waited on.
C12_WindowManagerReaped ==
    (sPc = "returned" /\ sCall.op = "Close") => clients[sCall.k].wm # "running"

----------------------------------------------------------------------------
(* C13 *)

\* C13: when a display is supplied through opts.Display or DISPLAY,
\* ConnectWithOptions starts no Xvfb (not even as a probe), whatever
\* StartXvfb says, and the Client it returns is not Xvfb-managed; for every
\* Client returned, IsXvfbManaged() is true exactly when the call started
\* the display server.
C13_SuppliedDisplayIsNotManaged ==
    [][ ConnectStep =>
        LET supplied == sCall'.opts.display # 0 \/ envDisplay # 0
            started == \E i \in EventsOf(sTrace', "startXvfb") : sTrace'[i].ok
        IN  /\ supplied => /\ EventsOf(sTrace', "startXvfb") = {}
                           /\ EventsOf(sTrace', "probe") = {}
                           /\ sRet' = "ok" => ~IsXvfbManaged(NewClient)
            /\ sRet' = "ok" => (IsXvfbManaged(NewClient) <=> started)
      ]_vars

\* a call with StartXvfb set returned an unmanaged Client on the display that
\* DISPLAY named, and another call returned a managed one
C13_Witness ==
    /\ sPc = "returned" /\ sCall.op = "Connect" /\ sRet = "ok"
    /\ Len(clients) = 2
    /\ sCall.opts.display = 0 /\ sCall.opts.startXvfb
    /\ IsXvfbManaged(clients[1])
    /\ ~IsXvfbManaged(clients[2])
    /\ GetDisplay(clients[2]) = GetDisplay(clients[1])

----------------------------------------------------------------------------
(* C14 *)

\* C14: when no display is supplied, the display on which ConnectWithOptions
\* starts Xvfb is the smallest candidate for which neither the lock file nor
\* the socket exists; a candidate with either of them is never chosen; and
\* when no candidate is free the call fails, starts nothing and leaves the
\* servers as they were.
C14_SmallestFreeDisplay ==
    [][ (ConnectStep /\ sCall'.opts.display = 0 /\ envDisplay = 0) =>
        LET free == {n \in Displays : n \notin lockFiles /\ n \notin sockets}
            starts == EventsOf(sTrace', "startXvfb") \cup EventsOf(sTrace', "probe")
        IN  /\ \A i \in starts : free # {} /\ sTrace'[i].n = Smallest(free)
            /\ (sRet' = "ok" /\ free # {}) => GetDisplay(NewClient) = Smallest(free)
            /\ free = {} => (sRet' = "err" /\ starts = {} /\ server' = server)
      ]_vars

----------------------------------------------------------------------------
(* C15 *)

\* C15: with DISPLAY unset before each call, a second successful Connect()
\* made while the Client of the first is still open returns a Client on
\* another display than the first.
C15_SequentialConnectsDiffer ==
    [][ ( /\ ConnectStep /\ sRet' = "ok"
          /\ envDisplay = 0 /\ sCall'.opts = DefaultOpts(sCall'.variant)
          /\ Len(clients) = 1
          /\ clients[1].conn = "open" /\ IsXvfbManaged(clients[1]) )
        => GetDisplay(NewClient) # GetDisplay(clients[1])
      ]_vars

----------------------------------------------------------------------------
(* C16 *)

\* the display server did not come up on the candidate: Start failed, or the
\* process exited because the display was in use
StartFailedAt(tr, i) == (tr[i].ev = "startXvfb" /\ ~tr[i].ok) \/ tr[i].ev = "xvfbExit"

\* C16: when the display server fails to start on the candidate that looked
\* free, ConnectWithOptions goes on to start it on the next candidate that
\* looks free; it gives up only when there is none left in the range.
C16_RetryNextCandidate ==
    [][ ConnectStep =>
        \A i \in 1..Len(sTrace') :
            StartFailedAt(sTrace', i) =>
                LET later == {m \in Displays : /\ m > sTrace'[i].n
                                               /\ m \notin lockFiles /\ m \notin sockets}
                IN  later # {} =>
                        \E j \in EventsOf(sTrace', "startXvfb") : j > i /\ sTrace'[j].n \in later
      ]_vars

----------------------------------------------------------------------------
(* C17 *)

\* C17: after starting Xvfb, ConnectWithOptions makes at most MaxPolls test
\* connections and none after the first that succeeds; when the window has
\* passed with every test connection refused, the call returns an error and
\* no Client.
C17_ReadinessPollingBounded ==
    [][ ConnectStep =>
        LET polls == EventsOf(sTrace', "poll")
        IN  /\ Cardinality(polls) <= MaxPolls
            /\ \A i \in polls : sTrace'[i].ok => \A j \in polls : j <= i
            /\ (Cardinality(polls) = MaxPolls /\ \A i \in polls : ~sTrace'[i].ok)
                    => (sRet' = "err" /\ clients' = clients)
      ]_vars

----------------------------------------------------------------------------
(* C18 *)

\* C18: when the round trip of the liveness monitor fails, connAlive becomes
\* false; once false it is never true again; and every X11Controller
\* operation called while it is false returns the connection-lost error,
\* issues no request and starts no process.
C18_MonitorFailureIsFinal ==
    [][ /\ (monPc = "sleep" /\ monPc' = "done") => ~connAlive'
        /\ ~connAlive => ~connAlive'
        /\ (~connAlive /\ xPc = "idle" /\ xPc' # "idle" /\ xCall'.op # "Close")
              => (xRet' = "err" /\ xReqs' = <<>> /\ spawned' = spawned /\ pointer' = pointer)
      ]_vars

\* the monitor has failed on the open connection and a ClickAt called after
\* that was refused
C18_Witness ==
    /\ connOpen /\ ~connAlive /\ monPc = "done"
    /\ xPc = "returned"
    /\ xCall.op = "ClickAt" /\ xCall.lost = 0
    /\ xRet = "err"
    /\ xReqs = <<>>

----------------------------------------------------------------------------
(* C19 *)

\* C19: a second X11Controller.Close() or Client.Close() returns without
\* error and leaves the state of the first: liveness false, connection
\* released, owned display server stopped; it delivers no signal to any
\* process.
C19_CloseIdempotent ==
    [][ /\ (xPc = "idle" /\ xPc' = "returned" /\ xCall'.op = "Close" /\ ~connOpen)
            => /\ xRet' = "ok"
               /\ ~connAlive' /\ ~connOpen'
               /\ <<connAlive, connOpen, monPc, pointer, spawned>>'
                    = <<connAlive, connOpen, monPc, pointer, spawned>>
               /\ xReqs' = <<>>
        /\ (sPc = "idle" /\ sPc' = "returned" /\ sCall'.op = "Close"
              /\ clients[sCall'.k].conn = "closed")
            => /\ sRet' = "ok"
               /\ clients'[sCall'.k].conn = "closed"
               /\ clients'[sCall'.k].xvfb \in {"nil", "reaped"}
               /\ <<clients, server, lockFiles, sockets, envDisplay>>'
                    = <<clients, server, lockFiles, sockets, envDisplay>>
               /\ \A i \in EventsOf(sTrace', "killXvfb") : ~sTrace'[i].ok
      ]_vars

\* the second Close of a Client that owned its display server has returned
C19_Witness ==
    /\ sPc = "returned" /\ sCall.op = "Close" /\ sRet = "ok"
    /\ clients[sCall.k].xvfb = "reaped"
    /\ server[clients[sCall.k].display] = "none"
    /\ sTrace = <<Ev("closeConn", clients[sCall.k].display, FALSE),
                  Ev("killXvfb", clients[sCall.k].display, FALSE)>>

----------------------------------------------------------------------------
(* C20 *)

ClientOps ==
    {"GetScreenInfo", "MouseMove", "MouseClick", "Type", "KeyPress", "KeyCombo", "ListWindows"}

\* C20: after Client.Close() has returned, every operation of that Client
\* (GetScreenInfo, MouseMove, MouseClick, Type, KeyPress, KeyCombo,
\* ListWindows) returns an error.
C20_ClosedClientRefuses ==
    (sPc = "returned" /\ sCall.op \in ClientOps /\ clients[sCall.k].conn = "closed")
        => sRet = "err"

----------------------------------------------------------------------------
(* C22 *)

\* a call of X11Controller.StartProgram returns
StartProgramStep == xPc = "idle" /\ xPc' = "returned" /\ xCall'.op = "StartProgram"

\* a call of Client.StartApp or Client.StartAppWithEnv returns
StartAppStep ==
    sPc = "idle" /\ sPc' = "returned" /\ sCall'.op \in {"StartApp", "StartAppWithEnv"}

\* StartApp and StartAppWithEnv with an executable that is not on the search
\* path return the not-found error and PID 0 and create no process
C22_ClientPart ==
    (StartAppStep /\ sCall'.arg \notin OnPath)
        => (sRet' = "err" /\ sErr' = "notFound" /\ sPid' = 0 /\ apps' = apps)

\* C22 as stated: a launch of an executable that is not on the search path
\* creates no process and returns no PID, and StartProgram, StartApp and
\* StartAppWithEnv return the not-found error.
C22_MissingExecutableNotFound ==
    [][ /\ (StartProgramStep /\ xCall'.arg \notin OnPath)
            => (xRet' = "err" /\ xErr' = "notFound" /\ spawned' = spawned)
        /\ C22_ClientPart
      ]_vars

\* C22 amended: a launch of an executable that is not on the search path
\* creates no process and returns no PID; StartApp and StartAppWithEnv
\* return the not-found error, and StartProgram returns it when the session
\* is alive and the connection-lost error when it is not.
C22_MissingExecutableSpawnsNothing ==
    [][ /\ (StartProgramStep /\ xCall'.arg \notin OnPath)
            => /\ xRet' = "err"
               /\ xErr' = IF connAlive THEN "notFound" ELSE "connectionLost"
               /\ spawned' = spawned
        /\ C22_ClientPart
      ]_vars

\* StartProgram of a missing executable has returned on a live session
C22_Witness ==
    /\ connAlive /\ connOpen
    /\ xPc = "returned"
    /\ xCall.op = "StartProgram"
    /\ xCall.arg = S_nosuch
    /\ xRet = "err" /\ xErr = "notFound"
    /\ spawned = 0

----------------------------------------------------------------------------
(* C23 *)

\* the names bound by an environment
NamesOf(env) == {EntryKey(env[i]) : i \in 1..Len(env)}

\* a call of StartApp or StartAppWithEnv returns a PID
StartedStep == StartAppStep /\ sRet' = "ok"

\* C23: the environment of a child started by StartAppWithEnv binds every
\* name of the caller's map to the caller's value, binds DISPLAY to the
\* display of the Client (unless the caller's map names DISPLAY, whose value
\* then is the later and effective one), and binds every other name as the
\* parent's environment does; it binds no further name.
C23_ChildEnvironment ==
    [][ StartedStep =>
          LET m == sCall'.env
              environ == sCall'.environ
              named == DOMAIN m \cup {S_DISPLAY}
          IN  /\ \A key \in DOMAIN m : Lookup(sEnv', key) = m[key]
              /\ S_DISPLAY \notin DOMAIN m
                    => Lookup(sEnv', S_DISPLAY) = DisplayString(clients[sCall'.k].display)
              /\ \A key \in NamesOf(environ) \ named :
                    Lookup(sEnv', key) = Lookup(environ, key)
              /\ NamesOf(sEnv') = NamesOf(environ) \cup named
      ]_vars

\* StartAppWithEnv has started a child for a Client whose display is not the
\* parent's DISPLAY, with a map that rebinds a name of the parent's
\* environment
C23_Witness ==
    /\ sPc = "returned" /\ sCall.op = "StartAppWithEnv" /\ sRet = "ok"
    /\ sPid = 1 /\ apps[1].state = "running"
    /\ Lookup(sCall.environ, S_DISPLAY) # Unset
    /\ Lookup(sCall.environ, S_DISPLAY) # DisplayString(clients[sCall.k].display)
    /\ DOMAIN sCall.env = {S_A}
    /\ Lookup(sCall.environ, S_A) = <<120>>
    /\ Lookup(sCall.environ, S_AB) = <<120>>
    /\ Lookup(sEnv, S_A) = <<121>>
    /\ Lookup(sEnv, S_AB) = <<120>>
    /\ Lookup(sEnv, S_DISPLAY) = DisplayString(clients[sCall.k].display)

----------------------------------------------------------------------------
(* C24 *)

\* a call of StopApp returns or blocks
StopAppStep == sPc = "idle" /\ sPc' # "idle" /\ sCall'.op = "StopApp"

\* C24: StopApp(pid) sends SIGTERM first; it sends SIGKILL only when the
\* delivery of SIGTERM reported an error, and then right after it; on every
\* path on which a signal was delivered the last thing it does is Wait.
C24_StopAppEscalation ==
    [][ StopAppStep =>
          LET tr == sTrace'
              pid == sCall'.arg[1]
              kills == EventsOf(tr, "SIGKILL")
              waits == EventsOf(tr, "Wait")
          IN  /\ Len(tr) >= 1
              /\ EventsOf(tr, "SIGTERM") = {1}
              /\ \A i \in 1..Len(tr) : tr[i].n = pid
              /\ kills \subseteq {2}
              /\ kills # {} <=> ~tr[1].ok
              /\ (\E i \in 1..Len(tr) : tr[i].ev \in {"SIGTERM", "SIGKILL"} /\ tr[i].ok)
                    <=> waits = {Len(tr)}
              /\ waits = {} => (sRet' = "err" /\ sErr' = "killFailed" /\ apps' = apps)
      ]_vars

\* StopApp of a running child has returned: the child accepted SIGTERM, got
\* no SIGKILL and was reaped
C24_Witness ==
    /\ sPc = "returned" /\ sCall.op = "StopApp" /\ sRet = "ok"
    /\ sCall.arg = <<1>>
    /\ Len(apps) = 1 /\ apps[1].state = "reaped"
    /\ sTrace = <<Ev("SIGTERM", 1, TRUE), Ev("Wait", 1, TRUE)>>

----------------------------------------------------------------------------
(* C25 *)

\* some keycode of the mapping carries keysym in column 0
InColumnZero(keysym) ==
    \E keycode \in kbd.minKeycode..kbd.maxKeycode : RowSym(keycode, 0) = keysym

\* C25: keysymToKeycode prefers the unshifted mapping: when some keycode
\* carries the symbol in column 0, the keycode it returns (seen as the key
\* that Type presses for a one-character text) carries it in column 0.
C25_PrefersUnshiftedColumn ==
    ( /\ cPc = "returned" /\ cCall.op = "Type" /\ cRet = "ok"
      /\ Len(cCall.arg) = 1 /\ cCall.arg[1] # NewlineByte )
        => LET sel == ClientCharKeysym(cCall.arg[1])
               key == cEvents[IF sel.needShift THEN 2 ELSE 1].detail
           IN  InColumnZero(sel.keysym) => RowSym(key, 0) = sel.keysym

----------------------------------------------------------------------------
(* C26 *)

\* a call of I3GetTree or I3Command returns
RelayStep == sPc = "idle" /\ sPc' = "returned" /\ sCall'.op \in {"I3GetTree", "I3Command"}

\* C26: while i3Connected is false, I3GetTree and I3Command with any
\* command, empty or not, return the not-connected error and make no relay
\* call; while it is true, I3Command("") returns the empty-command error,
\* also without a relay call.
C26_RelayFailsCleanly ==
    [][ RelayStep =>
          /\ ~i3Connected
                => (sRet' = "err" /\ sErr' = "notConnected" /\ sTrace' = <<>> /\ sText' = <<>>)
          /\ (i3Connected /\ sCall'.op = "I3Command" /\ sCall'.arg = <<>>)
                => (sRet' = "err" /\ sErr' = "emptyCommand" /\ sTrace' = <<>> /\ sText' = <<>>)
      ]_vars

\* I3Command("") has returned on a Client that never connected to i3
C26_Witness ==
    /\ ~i3Connected
    /\ sPc = "returned" /\ sCall.op = "I3Command" /\ sCall.arg = <<>>
    /\ sRet = "err" /\ sErr = "notConnected" /\ sTrace = <<>>

----------------------------------------------------------------------------
(* C27 *)

\* C27: every key event that TypeText emits names the focused window when
\* the focus reply names a window other than None and PointerRoot, and the
\* root window otherwise.
C27_KeyEventsTargetFocus ==
    (xPc # "idle" /\ xCall.op = "TypeText" /\ xCall.focus # "none")
        => \A i \in 1..Len(xReqs) :
                xReqs[i].req \in {"KeyPress", "KeyRelease"}
                    => xReqs[i].win = TargetWindow(xCall.focus)

----------------------------------------------------------------------------
(* C28 *)

\* the signal goroutine ends the process: os.Exit(0) after its cleanup()
SignalExit == sigPc = "exit" /\ mainPc' = "exited"

\* C28: when the process exits after an interrupt or SIGTERM, whenever the
\* signal arrived after signal.Notify, no child that the process has started
\* is still running: each has been killed and reaped.
C28_SignalTeardownComplete ==
    [][ SignalExit => \A c \in Children : proc'[c] # "running" ]_vars

----------------------------------------------------------------------------
(* C29 *)

\* the X server gave main a session: a connection, a screen, XTEST present
SessionOpen == xsetup.connects /\ xsetup.roots >= 1 /\ xsetup.present

\* C29: a tool call is dispatched only when NewX11Controller has succeeded,
\* that is with the connection opened, at least one screen and the XTEST
\* extension present; when NewX11Controller fails the process exits at that
\* step, having served no call.
C29_ServesOnlyOpenSession ==
    [][ /\ served' > served => (SessionOpen /\ NewX11ControllerErr(xsetup) = "none")
        /\ mainPc' = "serve" => SessionOpen'
        /\ (mainPc = "connect" /\ mainPc' # "connect" /\ ~SessionOpen')
              => (mainPc' \in {"fatal", "exited"} /\ served' = 0)
      ]_vars

\* a tool call has been served
C29_Witness == served >= 1 /\ SessionOpen

----------------------------------------------------------------------------
(* C30 *)

\* C30: when the process has exited after NewX11Controller succeeded, by
\* main returning or by the signal goroutine's os.Exit, xc.Close() has been
\* executed exactly once.
C30_ClosedExactlyOnce ==
    (mainPc = "exited" /\ NewX11ControllerErr(xsetup) = "none") => closes = 1

----------------------------------------------------------------------------
(* C31 *)

\* C31: when the display server rejects the injection request of a pointer
\* move or a click, Client.MouseMove and Client.MouseClick return an error
\* to their caller, never success.
C31_NoSilentFailure ==
    (sPc = "returned" /\ sCall.op \in {"MouseMove", "MouseClick"} /\ ~sCall.replyOk)
        => sRet = "err"

----------------------------------------------------------------------------
(* C32 *)

\* the requests of one key combination: modifier press, key press, key
\* release, modifier release, after the GetInputFocus of TypeText
ComboRequests(modKeysym, keysym) ==
    LET m == FirstOf(GetKeycodes(modKeysym))
        k == FirstOf(GetKeycodes(keysym))
    IN  <<Rq("GetInputFocus", 0, 0, TRUE), Rq("KeyPress", m, 0, TRUE), Rq("KeyPress", k, 0, TRUE),
          Rq("KeyRelease", k, 0, TRUE), Rq("KeyRelease", m, 0, TRUE)>>

\* C32: TypeText("Ctrl+C") that returns without error has sent the key
\* combination, Control_L press, c press, c release, Control_L release, and
\* has not typed the letters of "Ctrl" and the '+' as characters.
C32_InlineComboSent ==
    (xPc = "returned" /\ xCall.op = "TypeText" /\ xCall.arg = S_Ctrl \o <<PlusByte, 67>>
        /\ xRet = "ok")
        => xReqs = ComboRequests(XK_Control_L, 99)

----------------------------------------------------------------------------
(* C33 *)

\* no keycode of the range the server reports has keysym in a column
NowhereInMapping(keysym) ==
    \A keycode \in kbd.minKeycode..kbd.maxKeycode : ~RowHasKeysym(keycode, keysym)

\* C33: keysymToKeycode ends on every input: KeyPress of a key whose symbol
\* is nowhere in the keyboard mapping returns the not-found error, for every
\* keycode range of the server, MaxKeycode = 255 included.
C33_LookupTerminates ==
    (cPc # "idle" /\ cCall.op = "KeyPress" /\ keyNameToKeysym(cCall.arg).ok
        /\ NowhereInMapping(keyNameToKeysym(cCall.arg).keysym))
        => (cPc = "returned" /\ cRet = "err")

----------------------------------------------------------------------------
(* C34 *)

\* C34: TypeText ends for every finite text: a call of TypeText that has
\* started has returned, with success or an error, and is not still in its
\* loop, also for a text such as "Ctrl +C" where the index moves back over
\* the modifier word.
C34_TypeTextTerminates ==
    (xPc # "idle" /\ xCall.op = "TypeText") => (xPc = "returned" /\ xRet \in {"ok", "err"})

----------------------------------------------------------------------------
(* C35 *)

\* C35: when main has exited through log.Fatal on a failed startup step, no
\* child it started is still running: each has been killed and reaped.
C35_FatalExitReapsChildren ==
    mainPc = "fatal" => \A c \in Children : proc[c] # "running"

----------------------------------------------------------------------------
(* C36 *)

\* C36: when ConnectWithOptions has returned an error after it started Xvfb,
\* no Xvfb that the call started is left running, and a connection that the call opened has been
\* closed.
C36_FailedOpenLeaksNothing ==
    (sPc = "returned" /\ sCall.op = "Connect" /\ sRet = "err"
        /\ \E i \in EventsOf(sTrace, "startXvfb") : sTrace[i].ok)
        => /\ \A n \in Displays : server[n] # "leak"
           /\ (\E i \in EventsOf(sTrace, "connect") : sTrace[i].ok)
                 => EventsOf(sTrace, "closeConn") # {}

----------------------------------------------------------------------------
(* C37 *)

\* the monitor goroutine issues its QueryPointer round trip
MonitorRoundTrip == monPc = "sleep" /\ monPc' # "sleep"

\* C37: in every interleaving of Close() with the monitor goroutine, the
\* monitor issues no QueryPointer round trip on the connection after Close()
\* has released it.
C37_MonitorSparesClosedConnection ==
    [][ MonitorRoundTrip => connOpen ]_vars

----------------------------------------------------------------------------
(* C38 *)

\* C38: StopApp(pid) always returns: a call that has started has returned,
\* and is not blocked in Wait, also when the child accepts SIGTERM, ignores
\* it and keeps running.
C38_StopAppReturns ==
    (sPc # "idle" /\ sCall.op = "StopApp") => (sPc = "returned" /\ sRet \in {"ok", "err"})

----------------------------------------------------------------------------
(* C39 *)

\* C39: when take_screenshot with a filename has returned an image and
\* written the file, the file holds the bytes that were returned: both are
\* the PNG encoding of one capture, also when the screen changes during the
\* call.
C39_FileIsReturnedImage ==
    (xPc = "returned" /\ xCall.op = "take_screenshot" /\ xCall.arg # <<>> /\ xRet = "ok"
        /\ shotFile # <<>>)
        => shotFile = shotData

====
